---- MODULE Spec2Model ----
(***************************************************************************)
(* Model of the SAML service provider's assertion ingestion pipeline       *)
(* (class SAMLResponse): processRequest / extractXMLFromRequest,           *)
(* processXML, decryptNode and parseAssertion; of the AuthnRequest builder *)
(* (class SAMLRequest) and of the ServiceProvider.create factory.          *)
(*                                                                         *)
(* Abstraction.  An XML string is [src |-> tree], the tree being the       *)
(* markup as written (text nodes keep their raw characters, CR included);  *)
(* a DOM document is [documentElement |-> tree].  JavaScript strings that  *)
(* the code inspects character by character (request body, text content)   *)
(* are sequences of one-character strings.  A value that may be null is    *)
(* wrapped: Null, or Str(s).  Dates are Null, InvalidDate (NaN) or         *)
(* DateOf(ms).  Inputs are well-formed or explicitly Malformed XML.        *)
(***************************************************************************)
EXTENDS Integers, Sequences, FiniteSets, TLC

\* Largest clock value and largest timestamp written in a document.
MaxTime == 2

\* Slots for calls on the one SAMLResponse instance.
Calls == {1, 2}

----------------------------------------------------------------------------
(* JavaScript values *)

Null == [t |-> "null"]
Str(s) == [t |-> "string", v |-> s]
\* JavaScript truthiness of a string-or-null: null and "" are falsy.
Truthy(x) == x.t = "string" /\ x.v # ""

InvalidDate == [t |-> "date", valid |-> FALSE, ms |-> 0]
DateOf(ms) == [t |-> "date", valid |-> TRUE, ms |-> ms]

\* Texts of the timestamps 0 .. 7 ms, as Date.prototype.toISOString prints them.
IsoString ==
    << "1970-01-01T00:00:00.000Z", "1970-01-01T00:00:00.001Z",
       "1970-01-01T00:00:00.002Z", "1970-01-01T00:00:00.003Z",
       "1970-01-01T00:00:00.004Z", "1970-01-01T00:00:00.005Z",
       "1970-01-01T00:00:00.006Z", "1970-01-01T00:00:00.007Z" >>

toISOString(d) == IsoString[d.ms + 1]

\* new Date(text): the timestamp the text denotes, or an Invalid Date.
NewDate(text) ==
    IF \E i \in 1..Len(IsoString) : IsoString[i] = text
    THEN DateOf((CHOOSE i \in 1..Len(IsoString) : IsoString[i] = text) - 1)
    ELSE InvalidDate

\* Relational comparison of two Dates; any comparison with NaN is false.
DateLt(a, b) == a.valid /\ b.valid /\ a.ms < b.ms
DateGe(a, b) == a.valid /\ b.valid /\ a.ms >= b.ms

----------------------------------------------------------------------------
(* XML trees *)

El(tag, attrs, kids) == [tag |-> tag, attrs |-> attrs, kids |-> kids]
TextNode(chars) == [tag |-> "#text", kids |-> <<>>, data |-> chars]
\* An EncryptedAssertion element; cipher stands for its EncryptedData subtree.
EncEl(tag, cipher) == [tag |-> tag, attrs |-> <<>>, kids |-> <<>>, cipher |-> cipher]

Xml(tree) == [src |-> tree]
\* A text that is not a well-formed XML document.
Malformed == [malformed |-> TRUE]

\* Qualified tag name of a local name under a prefix ("" for none).
QNames ==
    [saml2 |-> [Assertion |-> "saml2:Assertion",
                EncryptedAssertion |-> "saml2:EncryptedAssertion",
                Conditions |-> "saml2:Conditions",
                Subject |-> "saml2:Subject",
                NameID |-> "saml2:NameID",
                AttributeStatement |-> "saml2:AttributeStatement",
                Attribute |-> "saml2:Attribute",
                AttributeValue |-> "saml2:AttributeValue"],
     saml  |-> [Assertion |-> "saml:Assertion",
                EncryptedAssertion |-> "saml:EncryptedAssertion",
                Conditions |-> "saml:Conditions",
                Subject |-> "saml:Subject",
                NameID |-> "saml:NameID",
                AttributeStatement |-> "saml:AttributeStatement",
                Attribute |-> "saml:Attribute",
                AttributeValue |-> "saml:AttributeValue"]]

Q(prefix, local) == IF prefix = "" THEN local ELSE QNames[prefix][local]

\* String.prototype.replace(/\r\n?/g, "\n") on a sequence of characters.
RECURSIVE ReplaceCR(_)
ReplaceCR(s) ==
    IF s = <<>> THEN <<>>
    ELSE IF Head(s) = "\r"
         THEN <<"\n">> \o ReplaceCR(IF Len(s) >= 2 /\ s[2] = "\n"
                                    THEN SubSeq(s, 3, Len(s))
                                    ELSE Tail(s))
         ELSE <<Head(s)>> \o ReplaceCR(Tail(s))

RECURSIVE NormaliseTree(_)
NormaliseTree(n) ==
    IF n.tag = "#text"
    THEN [n EXCEPT !.data = ReplaceCR(n.data)]
    ELSE [n EXCEPT !.kids = [i \in 1..Len(n.kids) |-> NormaliseTree(n.kids[i])]]

\* Variant: the text is parsed as received.
normaliseNothing(xml) == xml

\* xml.replace(/\r\n?/g, "\n") on an XML string: in the documents of this
\* model line endings occur in character data only.
normalise(xml) ==
    IF "malformed" \in DOMAIN xml THEN xml ELSE Xml(NormaliseTree(xml.src))

\* new DOMParser(PARSER_OPTIONS).parseFromString(text, "text/xml"):
\* the document, or a thrown ParseError for a text that is not well-formed.
ParseFails(xml) == "malformed" \in DOMAIN xml
parseFromString(xml) == [documentElement |-> xml.src]

\* node.toString(): the serialisation of the subtree.
NodeToString(node) == Xml(node)

\* All nodes below the given sibling sequence, in document order.
RECURSIVE DocOrder(_)
DocOrder(nodes) ==
    IF nodes = <<>> THEN <<>>
    ELSE <<Head(nodes)>> \o DocOrder(Head(nodes).kids) \o DocOrder(Tail(nodes))

ByTag(nodes, tag) ==
    LET Has(n) == n.tag = tag IN SelectSeq(nodes, Has)

\* Document.getElementsByTagName: matches the qualified name, root included.
getElementsByTagName(doc, tag) == ByTag(DocOrder(<<doc.documentElement>>), tag)
\* Element.getElementsByTagName: descendants only.
elGetElementsByTagName(el, tag) == ByTag(DocOrder(el.kids), tag)

\* list[0] ?? other
FirstOr(list, other) == IF Len(list) > 0 THEN list[1] ELSE other

\* Variant: only the unprefixed name is looked up.
FindFirstUnprefixed(doc, local) == FirstOr(getElementsByTagName(doc, local), Null)

\* doc.getElementsByTagName("saml2:X")[0] ?? doc.getElementsByTagName("X")[0] ?? null
FindFirst(doc, local) ==
    FirstOr(getElementsByTagName(doc, Q("saml2", local)),
            FirstOr(getElementsByTagName(doc, local), Null))

\* Element.getAttribute: the value, or null when the attribute is missing.
getAttribute(el, name) ==
    IF name \in DOMAIN el.attrs THEN Str(el.attrs[name]) ELSE Null

\* Node.textContent: the character data below the node, concatenated.
RECURSIVE ConcatText(_)
ConcatText(nodes) ==
    IF nodes = <<>> THEN <<>>
    ELSE (IF Head(nodes).tag = "#text" THEN Head(nodes).data ELSE <<>>)
         \o ConcatText(Tail(nodes))

textContent(node) == ConcatText(DocOrder(node.kids))

----------------------------------------------------------------------------
(* parseAssertion *)

Failure(message) == [kind |-> "error", message |-> message]
Returned(value) == [kind |-> "value", value |-> value]
Pending == [kind |-> "pending"]

\* The Conditions element of the assertion document, or null.
FindConditions(doc) == FindFirst(doc, "Conditions")

\* Variant: the attribute is converted without the `if (nb)` guard, so a
\* missing attribute (null) becomes new Date(null), the epoch.
ReadBoundUnguarded(conditions, name) ==
    IF conditions = Null THEN Null
    ELSE LET a == getAttribute(conditions, name)
         IN  IF a = Null THEN DateOf(0) ELSE NewDate(a.v)

\* notBefore / notOnOrAfter as read at lines 93-101.
ReadBound(conditions, name) ==
    IF conditions = Null THEN Null
    ELSE LET a == getAttribute(conditions, name)
         IN  IF Truthy(a) THEN NewDate(a.v) ELSE Null

\* Variant: the comparison is reversed (notBefore < now).
NotYetValidReversed(notBefore, t) == notBefore # Null /\ DateLt(notBefore, DateOf(t))

\* Variant: the lower bound is taken as exclusive (now <= notBefore).
NotYetValidInclusive(notBefore, t) == notBefore # Null /\ DateGe(notBefore, DateOf(t))

\* if (notBefore && now < notBefore)
NotYetValid(notBefore, t) == notBefore # Null /\ DateLt(DateOf(t), notBefore)

\* Variant: the upper bound is taken as inclusive (now > notOnOrAfter).
ExpiredStrictlyAfter(notOnOrAfter, t) == notOnOrAfter # Null /\ DateLt(notOnOrAfter, DateOf(t))

\* if (notOnOrAfter && now >= notOnOrAfter)
Expired(notOnOrAfter, t) == notOnOrAfter # Null /\ DateGe(DateOf(t), notOnOrAfter)

\* Property names that are array indices, with the number each denotes.
ArrayIndex == [n \in {"1", "2"} |-> IF n = "1" THEN 1 ELSE 2]
IsArrayIndex(name) == name \in DOMAIN ArrayIndex

\* attributes[name] = values on the object literal {} (line 145).  The object
\* is the sequence of its own properties in enumeration order: an existing
\* key keeps its place and takes the new value; a new array-index key goes
\* among the index keys in ascending order, ahead of every other key; any
\* other new key goes last.  Assigning an array to "__proto__" runs the
\* setter inherited from Object.prototype and creates no own property.
ObjectSet(obj, name, values) ==
    LET entry == [name |-> name, values |-> values]
    IN  IF name = "__proto__" THEN obj
        ELSE IF \E i \in 1..Len(obj) : obj[i].name = name
        THEN [i \in 1..Len(obj) |-> IF obj[i].name = name THEN entry ELSE obj[i]]
        ELSE IF IsArrayIndex(name)
        THEN LET Before(e) == IsArrayIndex(e.name) /\ ArrayIndex[e.name] < ArrayIndex[name]
                 After(e) == ~Before(e)
             IN  SelectSeq(obj, Before) \o <<entry>> \o SelectSeq(obj, After)
        ELSE Append(obj, entry)

\* Variant: the Attribute elements of both tag sets are read, the prefixed
\* ones first.
AttrNodesMerged(doc) ==
    getElementsByTagName(doc, "saml2:Attribute") \o getElementsByTagName(doc, "Attribute")

\* Variant: only the unprefixed Attribute elements are read.
AttrNodesUnprefixed(doc) == getElementsByTagName(doc, "Attribute")

\* The Attribute elements used: the saml2-prefixed ones if there are any.
AttrNodes(doc) ==
    IF Len(getElementsByTagName(doc, "saml2:Attribute")) > 0
    THEN getElementsByTagName(doc, "saml2:Attribute")
    ELSE getElementsByTagName(doc, "Attribute")

ValueNodes(attr) ==
    IF Len(elGetElementsByTagName(attr, "saml2:AttributeValue")) > 0
    THEN elGetElementsByTagName(attr, "saml2:AttributeValue")
    ELSE elGetElementsByTagName(attr, "AttributeValue")

\* The inner loop: the non-empty text contents of the value nodes, in order.
RECURSIVE CollectValues(_)
CollectValues(valueNodes) ==
    IF valueNodes = <<>> THEN <<>>
    ELSE LET text == textContent(Head(valueNodes))
         IN  (IF text # <<>> THEN <<text>> ELSE <<>>) \o CollectValues(Tail(valueNodes))

\* The outer loop over attrNodes, starting from the object built so far.
RECURSIVE CollectAttributes(_, _)
CollectAttributes(attrNodes, obj) ==
    IF attrNodes = <<>> THEN obj
    ELSE LET attr == Head(attrNodes)
             name == getAttribute(attr, "Name")
         IN  IF ~Truthy(name)
             THEN CollectAttributes(Tail(attrNodes), obj)
             ELSE CollectAttributes(Tail(attrNodes),
                                    ObjectSet(obj, name.v, CollectValues(ValueNodes(attr))))

\* nameIDNode?.textContent ?? null
ReadNameID(doc) ==
    LET nameIDNode == FindFirst(doc, "NameID")
    IN  IF nameIDNode = Null THEN Null ELSE Str(textContent(nameIDNode))

\* parseAssertion(assertionXML) run at clock value t: the record, or the
\* failure thrown.
parseAssertion(assertionXML, t) ==
    IF ParseFails(assertionXML) THEN Failure(<<"ParseError">>)
    ELSE
    LET doc == parseFromString(assertionXML)
        conditions == FindConditions(doc)
        notBefore == ReadBound(conditions, "NotBefore")
        notOnOrAfter == ReadBound(conditions, "NotOnOrAfter")
    IN  IF NotYetValid(notBefore, t)
        THEN Failure(<<"Assertion not yet valid. NotBefore: ", toISOString(notBefore)>>)
        ELSE IF Expired(notOnOrAfter, t)
        THEN Failure(<<"Assertion has expired. NotOnOrAfter: ", toISOString(notOnOrAfter)>>)
        ELSE Returned([xml |-> assertionXML,
                       nameID |-> ReadNameID(doc),
                       attributes |-> CollectAttributes(AttrNodes(doc), <<>>),
                       notBefore |-> notBefore,
                       notOnOrAfter |-> notOnOrAfter])

----------------------------------------------------------------------------
(* decryptNode *)

\* Algorithms xml-encryption refuses when insecure algorithms are disallowed.
InsecureAlgorithms == {"rsa-1_5", "tripledes-cbc"}

\* xmlenc.decrypt(encryptedXML, options, callback): what the callback gets.
\* The payload decrypts under the key it was encrypted for, if it is intact.
XmlencDecrypt(encryptedXML, options) ==
    LET c == encryptedXML.src.cipher
    IN  IF options.disallowDecryptionWithInsecureAlgorithm
           /\ (c.alg \in InsecureAlgorithms \/ c.keyAlg \in InsecureAlgorithms)
        THEN [err |-> Str("insecure algorithm"), result |-> Null]
        ELSE IF c.key # options.key
        THEN [err |-> Str("bad key"), result |-> Null]
        ELSE IF ~c.intact
        THEN [err |-> Str("corrupt ciphertext"), result |-> Null]
        ELSE [err |-> Null, result |-> c.plain]

\* Variant: insecure algorithms are not refused.
DecryptNodeOptionsLenient(decryptOptions) ==
    [key |-> decryptOptions.privateKey,
     disallowDecryptionWithInsecureAlgorithm |-> FALSE,
     warnInsecureAlgorithm |-> TRUE]

\* The options object built at lines 67-71.
DecryptNodeOptions(decryptOptions) ==
    [key |-> decryptOptions.privateKey,
     disallowDecryptionWithInsecureAlgorithm |-> TRUE,
     warnInsecureAlgorithm |-> TRUE]

\* decryptNode(encryptedXML): how the promise it returns settles.
decryptNode(encryptedXML, decryptOptions) ==
    LET got == XmlencDecrypt(encryptedXML, DecryptNodeOptions(decryptOptions))
    IN  IF got.err # Null
        THEN Failure(<<"Decryption failed: ", got.err.v>>)
        ELSE Returned(got.result)

----------------------------------------------------------------------------
(* processXML, up to its only await *)

FindEncrypted(doc) == FindFirst(doc, "EncryptedAssertion")
FindPlain(doc) == FindFirst(doc, "Assertion")

\* Variant: the plain Assertion is looked up first, the EncryptedAssertion
\* only when there is none.
processXMLStartPlainFirst(xml, decryptOptions, t) ==
    LET normalised == normalise(xml)
    IN  IF ParseFails(normalised)
        THEN [settled |-> TRUE, outcome |-> Failure(<<"ParseError">>),
              parsed |-> <<normalised>>, ops |-> {"parse"}]
        ELSE
        LET doc == parseFromString(normalised)
            encryptedNode == FindEncrypted(doc)
            plainNode == FindPlain(doc)
        IN  IF plainNode # Null
            THEN [settled |-> TRUE,
                  outcome |-> parseAssertion(NodeToString(plainNode), t),
                  assertionXML |-> NodeToString(plainNode),
                  parsed |-> <<normalised, NodeToString(plainNode)>>,
                  ops |-> {"parse", "validate"}]
            ELSE IF encryptedNode = Null
            THEN [settled |-> TRUE, outcome |-> Returned(Null),
                  parsed |-> <<normalised>>, ops |-> {"parse"}]
            ELSE [settled |-> FALSE,
                  decryption |-> decryptNode(NodeToString(encryptedNode), decryptOptions),
                  parsed |-> <<normalised>>,
                  ops |-> {"parse", "decrypt"}]

\* The synchronous part of processXML(xml) at clock value t: either the call
\* is over (settled), or it awaits the promise of decryptNode.  parsed: the
\* texts given to parseFromString, in order.
processXMLStart(xml, decryptOptions, t) ==
    LET normalised == normalise(xml)
    IN  IF ParseFails(normalised)
        THEN [settled |-> TRUE, outcome |-> Failure(<<"ParseError">>),
              parsed |-> <<normalised>>, ops |-> {"parse"}]
        ELSE
        LET doc == parseFromString(normalised)
            encryptedNode == FindEncrypted(doc)
            plainNode == FindPlain(doc)
        IN  IF encryptedNode # Null
            THEN [settled |-> FALSE,
                  decryption |-> decryptNode(NodeToString(encryptedNode), decryptOptions),
                  parsed |-> <<normalised>>,
                  ops |-> {"parse", "decrypt"}]
            ELSE IF plainNode = Null
            THEN [settled |-> TRUE, outcome |-> Returned(Null),
                  parsed |-> <<normalised>>, ops |-> {"parse"}]
            ELSE [settled |-> TRUE,
                  outcome |-> parseAssertion(NodeToString(plainNode), t),
                  assertionXML |-> NodeToString(plainNode),
                  parsed |-> <<normalised, NodeToString(plainNode)>>,
                  ops |-> {"parse", "validate"}]

----------------------------------------------------------------------------
(* extractXMLFromRequest: body decoding *)

\* JavaScript truthiness of a character-sequence string or null.
TruthyText(x) == x.t = "string" /\ x.v # <<>>

\* Buffer.prototype.toString() (UTF-8): "C3" "A9" are the two bytes of
\* U+00E9; a lead or continuation byte on its own becomes U+FFFD.
RECURSIVE BufferToString(_)
BufferToString(bytes) ==
    IF bytes = <<>> THEN <<>>
    ELSE IF Head(bytes) = "C3" /\ Len(bytes) >= 2 /\ bytes[2] = "A9"
         THEN <<"U+00E9">> \o BufferToString(SubSeq(bytes, 3, Len(bytes)))
         ELSE IF Head(bytes) \in {"C3", "A9"}
              THEN <<"U+FFFD">> \o BufferToString(Tail(bytes))
              ELSE <<Head(bytes)>> \o BufferToString(Tail(bytes))

\* Index of the first d in s, or 0.
IndexOf(s, d) ==
    IF \E i \in 1..Len(s) : s[i] = d
    THEN CHOOSE i \in 1..Len(s) : s[i] = d /\ \A j \in 1..(i - 1) : s[j] # d
    ELSE 0

RECURSIVE Split(_, _)
Split(s, d) ==
    LET i == IndexOf(s, d)
    IN  IF i = 0 THEN <<s>>
        ELSE <<SubSeq(s, 1, i - 1)>> \o Split(SubSeq(s, i + 1, Len(s)), d)

\* The percent escapes that occur in the bodies and URLs of this model.
PercentTable ==
    [x \in {<<"3", "D">>, <<"2", "B">>, <<"2", "6">>, <<"2", "0">>, <<"2", "F">>,
            <<"2", "5">>} |->
        IF x = <<"3", "D">> THEN "="
        ELSE IF x = <<"2", "B">> THEN "+"
        ELSE IF x = <<"2", "6">> THEN "&"
        ELSE IF x = <<"2", "0">> THEN " "
        ELSE IF x = <<"2", "F">> THEN "/"
        ELSE "%"]

\* application/x-www-form-urlencoded decoding of a name or value:
\* "+" is a space, %XX is the byte XX, a stray "%" stays.
RECURSIVE FormDecode(_)
FormDecode(s) ==
    IF s = <<>> THEN <<>>
    ELSE IF Head(s) = "+" THEN <<" ">> \o FormDecode(Tail(s))
    ELSE IF Head(s) = "%" /\ Len(s) >= 3 /\ <<s[2], s[3]>> \in DOMAIN PercentTable
         THEN <<PercentTable[<<s[2], s[3]>>]>> \o FormDecode(SubSeq(s, 4, Len(s)))
         ELSE <<Head(s)>> \o FormDecode(Tail(s))

\* new URLSearchParams(body): the name/value pairs, in order.
URLSearchParams(body) ==
    LET NonEmpty(seg) == seg # <<>>
        segs == SelectSeq(Split(body, "&"), NonEmpty)
    IN  [i \in 1..Len(segs) |->
            LET eq == IndexOf(segs[i], "=")
            IN  [name  |-> FormDecode(IF eq = 0 THEN segs[i] ELSE SubSeq(segs[i], 1, eq - 1)),
                 value |-> FormDecode(IF eq = 0 THEN <<>>
                                      ELSE SubSeq(segs[i], eq + 1, Len(segs[i])))]]

\* params.get(name): the value of the first pair of that name, or null.
ParamsGet(params, name) ==
    IF \E i \in 1..Len(params) : params[i].name = name
    THEN Str(params[CHOOSE i \in 1..Len(params) :
                      params[i].name = name /\ \A j \in 1..(i - 1) : params[j].name # name].value)
    ELSE Null

\* The name "SAMLResponse", in two pieces so that a chunk can end inside it.
SAMLResponseKey == <<"SAML", "Response">>

\* The Base64 text of payload k is four characters and its UTF-8 text three
\* bytes; the XML document the three bytes spell is PayloadXML[k] (below).
PayloadSextets ==
    << <<"[1a]", "[1b]", "[1c]", "[1d]">>, <<"[2a]", "[2b]", "[2c]", "[2d]">>,
       <<"[3a]", "[3b]", "[3c]", "[3d]">>, <<"[4a]", "[4b]", "[4c]", "[4d]">>,
       <<"[5a]", "[5b]", "[5c]", "[5d]">>, <<"[6a]", "[6b]", "[6c]", "[6d]">> >>
PayloadBytes ==
    << <<"<1a>", "<1b>", "<1c>">>, <<"<2a>", "<2b>", "<2c>">>,
       <<"<3a>", "<3b>", "<3c>">>, <<"<4a>", "<4b>", "<4c>">>,
       <<"<5a>", "<5b>", "<5c>">>, <<"<6a>", "<6b>", "<6c>">> >>

\* Characters of the Base64 alphabet among the characters of this model.
IsSextet(c) ==
    \/ \E k \in 1..Len(PayloadSextets) : \E i \in 1..4 : PayloadSextets[k][i] = c
    \/ c \in {"SAML", "Response", "ResponsE", "S", "A", "M", "L", "R", "a",
              "2", "3", "6", "B", "D", "+", "/"}

DecodeQuad(q) ==
    IF \E k \in 1..Len(PayloadSextets) : PayloadSextets[k] = q
    THEN PayloadBytes[CHOOSE k \in 1..Len(PayloadSextets) : PayloadSextets[k] = q]
    ELSE <<"?", "?", "?">>

RECURSIVE DecodeGroups(_)
DecodeGroups(s) ==
    IF Len(s) >= 4 THEN DecodeQuad(SubSeq(s, 1, 4)) \o DecodeGroups(SubSeq(s, 5, Len(s)))
    ELSE IF Len(s) >= 2 THEN [i \in 1..(Len(s) - 1) |-> "?"]
    ELSE <<>>

\* Buffer.from(text, "base64"): characters outside the alphabet are skipped,
\* "=" ends the data, four characters give three bytes.
Base64Decode(text) ==
    LET eq == IndexOf(text, "=")
        data == IF eq = 0 THEN text ELSE SubSeq(text, 1, eq - 1)
    IN  DecodeGroups(SelectSeq(data, IsSextet))

\* The "end" handler (lines 162-169): the value the promise is resolved with.
ExtractOnEnd(body) ==
    LET params == URLSearchParams(body)
        samlResponse == ParamsGet(params, SAMLResponseKey)
    IN  IF ~TruthyText(samlResponse) THEN Null
        ELSE LET xml == BufferToString(Base64Decode(samlResponse.v))
             IN  IF Len(xml) > 0 THEN Str(xml) ELSE Null

----------------------------------------------------------------------------
(* Input documents *)

\* Values a NotBefore / NotOnOrAfter attribute is written with.
TimeStrings == {IsoString[t + 1] : t \in 0..MaxTime}
CondAttrValues == {"", "not-a-date"} \cup TimeStrings

CondAttrs ==
    {<<>>}
    \cup {[NotBefore |-> a] : a \in CondAttrValues}
    \cup {[NotOnOrAfter |-> b] : b \in CondAttrValues}
    \cup {[NotBefore |-> a, NotOnOrAfter |-> b] : a \in CondAttrValues, b \in CondAttrValues}

NL == TextNode(<<"\n">>)

SubjectOf(p, chars) ==
    El(Q(p, "Subject"), <<>>, <<El(Q(p, "NameID"), <<>>, <<TextNode(chars)>>)>>)

AttributeOf(p, name, values) ==
    El(Q(p, "Attribute"), [Name |-> name],
       [i \in 1..Len(values) |-> El(Q(p, "AttributeValue"), <<>>, <<TextNode(values[i])>>)])

StatementOf(p, attrs) == El(Q(p, "AttributeStatement"), <<>>, attrs)

\* An Attribute element from a description: a.name is Null for an element
\* written without a Name.
AttributeEl(p, a) ==
    El(Q(p, "Attribute"),
       IF a.name = Null THEN <<>> ELSE [Name |-> a.name.v],
       [i \in 1..Len(a.values) |->
           El(Q(p, "AttributeValue"), <<>>,
              IF a.values[i] = <<>> THEN <<>> ELSE <<TextNode(a.values[i])>>)])

Attr(name, values) == [name |-> Str(name), values |-> values]

\* The attribute statements the documents are written with.
AttrStatements ==
    { <<>>,
      <<Attr("email", << <<"alice@example.com">> >>),
        Attr("roles", << <<"admin">>, <<"user">> >>)>>,
      <<Attr("roles", << <<"admin">> >>), Attr("2", << <<"b">> >>), Attr("1", << <<"a">> >>)>>,
      <<Attr("email", << <<"a">> >>), Attr("__proto__", << <<"b">> >>)>>,
      <<Attr("email", << <<"a">> >>), Attr("roles", << <<"b">> >>), Attr("email", << <<"c">> >>)>>,
      <<[name |-> Null, values |-> << <<"a">> >>], Attr("", << <<"b">> >>),
        Attr("email", << <<"c">> >>)>>,
      <<Attr("roles", << <<"a">>, <<>>, <<"b">> >>)>>,
      <<Attr("__proto__", << <<"a">> >>), Attr("email", << <<"b">> >>),
        Attr("__proto__", << <<"c">> >>)>> }

\* An assertion without Conditions, written with prefix p, that states the
\* given attributes.
AssertionStating(p, statement) ==
    El(Q(p, "Assertion"), <<>>,
       <<SubjectOf(p, <<"u">>)>>
       \o (IF statement = <<>> THEN <<>>
           ELSE <<StatementOf(p, [i \in 1..Len(statement) |-> AttributeEl(p, statement[i])])>>))

AttributeDocs == {AssertionStating(p, st) : p \in {"", "saml2"}, st \in AttrStatements}

\* Assertions that mix the two tag sets: unprefixed Attribute elements around
\* a saml2 one whose values are of both kinds; an unprefixed Attribute with
\* values of both kinds; a saml2 Attribute without a Name next to a named
\* unprefixed one.
MixedAttributeDocs ==
    { El("saml2:Assertion", <<>>, <<StatementOf("saml2", attrs)>>) : attrs \in
        { <<AttributeOf("", "email", << <<"a">> >>),
            El("saml2:Attribute", [Name |-> "roles"],
               <<El("AttributeValue", <<>>, <<TextNode(<<"q">>)>>),
                 El("saml2:AttributeValue", <<>>, <<TextNode(<<"p">>)>>)>>),
            AttributeOf("", "roles", << <<"c">> >>)>>,
          <<El("Attribute", [Name |-> "email"],
               <<El("AttributeValue", <<>>, <<TextNode(<<"q">>)>>),
                 El("saml2:AttributeValue", <<>>, <<TextNode(<<"p">>)>>),
                 El("AttributeValue", <<>>, <<TextNode(<<"r">>)>>)>>)>>,
          <<El("saml2:Attribute", <<>>,
               <<El("saml2:AttributeValue", <<>>, <<TextNode(<<"p">>)>>)>>),
            AttributeOf("", "email", << <<"a">> >>)>> } }

\* Assertions that differ in their NameID elements: none; one without text;
\* an unprefixed one ahead of a saml2 one; two unprefixed ones; a saml2 one
\* without text ahead of an unprefixed one with text.
NameIDDocs ==
    { El("Assertion", <<>>, <<El("Subject", <<>>, ids)>>) : ids \in
        { <<>>,
          <<El("NameID", <<>>, <<>>)>>,
          <<El("NameID", <<>>, <<TextNode(<<"x">>)>>),
            El("saml2:NameID", <<>>, <<TextNode(<<"y">>)>>)>>,
          <<El("NameID", <<>>, <<TextNode(<<"x">>)>>),
            El("NameID", <<>>, <<TextNode(<<"y">>)>>)>>,
          <<El("saml2:NameID", <<>>, <<>>),
            El("NameID", <<>>, <<TextNode(<<"x">>)>>)>> } }

\* An assertion written with prefix p, with the given Conditions elements.
AssertionOf(p, conditions) ==
    El(Q(p, "Assertion"), <<>>,
       <<NL>> \o conditions
       \o <<SubjectOf(p, <<"u">>),
            StatementOf(p, <<AttributeOf(p, "email", << <<"a">> >>)>>),
            NL>>)

ConditionsChoices(p) ==
    {<<>>} \cup {<<El(Q(p, "Conditions"), a, <<>>)>> : a \in CondAttrs}

AssertionDocs ==
    {AssertionOf(p, c) : p \in {""}, c \in ConditionsChoices("")}
    \cup {AssertionOf(p, c) : p \in {"saml2"}, c \in ConditionsChoices("saml2")}

\* The payload of an EncryptedAssertion, encrypted for the key "k1".
CipherOf(plain, alg, keyAlg, intact) ==
    [key |-> "k1", alg |-> alg, keyAlg |-> keyAlg, intact |-> intact, plain |-> plain]

GoodCipher(a) == CipherOf(Xml(a), "aes256-gcm", "rsa-oaep-mgf1p", TRUE)

Response(kids) == Xml(El("samlp:Response", <<>>, kids))

\* Two assertions that differ, for envelopes that hold both kinds.
SampleA == AssertionOf("saml2", <<>>)
SampleB == AssertionOf("", <<El("Conditions", [NotOnOrAfter |-> IsoString[MaxTime + 1]], <<>>)>>)

BadCiphers ==
    {CipherOf(Xml(SampleA), "tripledes-cbc", "rsa-oaep-mgf1p", TRUE),
     CipherOf(Xml(SampleA), "aes256-gcm", "rsa-1_5", TRUE),
     CipherOf(Xml(SampleA), "aes256-gcm", "rsa-oaep-mgf1p", FALSE),
     CipherOf(Malformed, "aes256-gcm", "rsa-oaep-mgf1p", TRUE)}

EncPrefixes == {"", "saml2"}

PlainEnvelopes ==
    {Response(<<a>>) : a \in AssertionDocs} \cup {Xml(a) : a \in AssertionDocs}
    \cup {Response(<<a>>) : a \in AttributeDocs}
    \cup {Response(<<a>>) : a \in NameIDDocs}
    \cup {Response(<<a>>) : a \in MixedAttributeDocs}

EncryptedEnvelopes ==
    {Response(<<EncEl(Q(p, "EncryptedAssertion"), GoodCipher(a))>>) :
        p \in EncPrefixes, a \in AssertionDocs}
    \cup {Response(<<EncEl(Q(p, "EncryptedAssertion"), c)>>) :
        p \in EncPrefixes, c \in BadCiphers}

MixedEnvelopes ==
    {Response(<<EncEl(Q(p, "EncryptedAssertion"), c), SampleB>>) :
        p \in EncPrefixes, c \in BadCiphers \cup {GoodCipher(SampleA)}}
    \cup {Response(<<SampleB, NL, EncEl(Q(p, "EncryptedAssertion"), c)>>) :
        p \in EncPrefixes, c \in BadCiphers \cup {GoodCipher(SampleA)}}

\* The same markup with every line feed written as eol.
RECURSIVE WithEOL(_, _)
WithEOL(n, eol) ==
    IF n.tag = "#text"
    THEN [n EXCEPT !.data =
            LET RECURSIVE Each(_)
                Each(cs) == IF cs = <<>> THEN <<>>
                            ELSE (IF Head(cs) = "\n" THEN eol ELSE <<Head(cs)>>)
                                 \o Each(Tail(cs))
            IN  Each(n.data)]
    ELSE [n EXCEPT !.kids = [i \in 1..Len(n.kids) |-> WithEOL(n.kids[i], eol)]]

CRLF == <<"\r", "\n">>
CR == <<"\r">>

\* An assertion of several lines, with line breaks inside its texts.
MultiLine(p) ==
    El(Q(p, "Assertion"), <<>>,
       <<NL, El(Q(p, "Conditions"), [NotBefore |-> IsoString[2]], <<>>),
         NL, SubjectOf(p, <<"u", "\n", "v">>),
         NL, StatementOf(p, <<AttributeOf(p, "email", << <<"a", "\n", "\n", "b">> >>)>>),
         NL>>)

\* Documents written with LF line endings, and the same documents written
\* with CRLF and with lone CR.
LFEnvelopes == {Xml(MultiLine("")), Response(<<NL, MultiLine("saml2"), NL>>)}
CREnvelopes == {Xml(WithEOL(x.src, eol)) : x \in LFEnvelopes, eol \in {CRLF, CR}}

\* Encrypted assertions whose plaintext is written with LF, CRLF and lone CR.
MultiLineCiphers ==
    {Response(<<EncEl("saml2:EncryptedAssertion", GoodCipher(WithEOL(MultiLine("saml2"), eol)))>>) :
        eol \in {<<"\n">>, CRLF, CR}}

EmptyEnvelopes ==
    {Response(<<>>),
     Response(<<TextNode(<<"\r", "\n">>)>>),
     Response(<<AssertionOf("saml", <<>>)>>),
     Response(<<EncEl("saml:EncryptedAssertion", GoodCipher(SampleA))>>)}

Envelopes ==
    PlainEnvelopes \cup EncryptedEnvelopes \cup MixedEnvelopes \cup EmptyEnvelopes
    \cup LFEnvelopes \cup CREnvelopes \cup MultiLineCiphers
    \cup {Malformed}

\* The documents that request bodies carry, by payload number.
PayloadXML ==
    << Response(<<SampleA>>),
       Response(<<AssertionOf("", <<El("Conditions",
                     [NotBefore |-> IsoString[2], NotOnOrAfter |-> IsoString[MaxTime + 1]],
                     <<>>)>>)>>),
       Response(<<EncEl("saml2:EncryptedAssertion", GoodCipher(SampleB))>>),
       Response(<<EncEl("EncryptedAssertion",
                        CipherOf(Xml(SampleA), "aes256-gcm", "rsa-oaep-mgf1p", FALSE))>>),
       Response(<<>>),
       Xml(AssertionOf("saml2", <<El("saml2:Conditions",
                     [NotBefore |-> IsoString[MaxTime + 1]], <<>>)>>)) >>

\* The JavaScript string handed to processXML, as the XML text it spells.
AsXml(chars) ==
    IF \E k \in 1..Len(PayloadBytes) : PayloadBytes[k] = chars
    THEN PayloadXML[CHOOSE k \in 1..Len(PayloadBytes) : PayloadBytes[k] = chars]
    ELSE Malformed

KV == SAMLResponseKey \o <<"=">>

\* Request bodies, as byte sequences.
Bodies ==
    {KV \o PayloadSextets[k] : k \in 1..Len(PayloadSextets)}
    \cup {<<"R", "=", "C3", "A9", "&">> \o KV \o PayloadSextets[1],
          KV \o PayloadSextets[2] \o <<"%", "3", "D">>,
          KV \o PayloadSextets[1] \o <<"&">> \o KV \o PayloadSextets[5],
          <<>>,
          <<"a", "=", "a">>,
          KV,
          SAMLResponseKey,
          KV \o <<"%", "3", "D">>,
          KV \o <<"+">>,
          KV \o <<"A">>,
          KV \o <<"S", "A", "M", "L">>,
          <<"SAML", "ResponsE", "=">> \o PayloadSextets[1]}

\* Bodies of the requests that are not POSTs.
OtherBodies == {<<>>, KV \o PayloadSextets[1]}

Methods == {"POST", "GET"}

\* No body is longer than this.
MaxBody == 16

\* Errors a request stream may signal.
StreamErrors == {<<"Stream exploded">>, <<"aborted">>}

\* Values of DecryptOptions.privateKey a caller may pass.
PrivateKeys == {"", "k1", "k2"}

\* The options objects a caller may pass to new SAMLResponse: with a
\* privateKey, or without the property.
DecryptOptionsGiven ==
    {[privateKey |-> k] : k \in PrivateKeys} \cup {[f \in {} |-> ""]}

----------------------------------------------------------------------------
(* SAMLRequest: URLs and the AuthnRequest document *)

\* Texts of this part are sequences of pieces; the pieces of a URL are its
\* leading spaces, the part up to the query, "?" and the characters of the
\* query.
IdPBase == "https://idp.example.com/sso"
ACSBase == "https://sp.example.com/acs"

\* The scheme-and-path texts the URL parser takes for an absolute URL.
AbsoluteBases == {IdPBase, ACSBase, "urn:example:sp"}

\* The URL parser strips leading and trailing spaces from its input.
RECURSIVE StripLeading(_)
StripLeading(s) == IF s # <<>> /\ Head(s) = " " THEN StripLeading(Tail(s)) ELSE s
RECURSIVE StripTrailing(_)
StripTrailing(s) ==
    IF s # <<>> /\ s[Len(s)] = " " THEN StripTrailing(SubSeq(s, 1, Len(s) - 1)) ELSE s
StripSpace(s) == StripTrailing(StripLeading(s))

\* new URL(s) throws a TypeError: s has no scheme, or is empty.
URLThrows(s) ==
    LET t == StripSpace(s)
    IN  \/ t = <<>>
        \/ t[1] \notin AbsoluteBases
        \/ Len(t) >= 2 /\ t[2] # "?"

\* new URL(s), for a text that parses.
NewURL(s) ==
    LET t == StripSpace(s)
    IN  [base |-> t[1], query |-> SubSeq(t, 3, Len(t))]

\* URL.prototype.toString()
URLToString(url) ==
    <<url.base>> \o (IF url.query = <<>> THEN <<>> ELSE <<"?">> \o url.query)

\* application/x-www-form-urlencoded serialisation of a name or value.
RECURSIVE FormEncode(_)
FormEncode(s) ==
    IF s = <<>> THEN <<>>
    ELSE (IF Head(s) = " " THEN <<"+">>
          ELSE IF \E x \in DOMAIN PercentTable : PercentTable[x] = Head(s)
          THEN <<"%">> \o (CHOOSE x \in DOMAIN PercentTable : PercentTable[x] = Head(s))
          ELSE <<Head(s)>>)
         \o FormEncode(Tail(s))

\* The query string of a list of name/value pairs.
RECURSIVE SerializeParams(_)
SerializeParams(list) ==
    IF list = <<>> THEN <<>>
    ELSE FormEncode(Head(list).name) \o <<"=">> \o FormEncode(Head(list).value)
         \o (IF Len(list) > 1 THEN <<"&">> ELSE <<>>) \o SerializeParams(Tail(list))

RECURSIVE SetFrom(_, _, _, _)
SetFrom(list, name, value, found) ==
    IF list = <<>>
    THEN IF found THEN <<>> ELSE <<[name |-> name, value |-> value]>>
    ELSE IF Head(list).name = name
    THEN (IF found THEN <<>> ELSE <<[name |-> name, value |-> value]>>)
         \o SetFrom(Tail(list), name, value, TRUE)
    ELSE <<Head(list)>> \o SetFrom(Tail(list), name, value, found)

\* Variant: searchParams.append(name, value).
SearchParamsAppend(list, name, value) == Append(list, [name |-> name, value |-> value])

\* searchParams.set(name, value): the first pair of that name takes the
\* value and the others of that name go; without one, the pair is appended.
SearchParamsSet(list, name, value) == SetFrom(list, name, value, FALSE)

\* The identifiers "_" + crypto.randomBytes(21).toString("hex") gives, in
\* the order drawn: the generator never repeats itself.
IdStrings == <<"_01", "_02", "_03", "_04", "_05", "_06">>
generateRandomEntityID(n) == IdStrings[n + 1]

\* Attribute values are escaped when the document is serialised.
EscapeXML(s) == [i \in 1..Len(s) |-> IF s[i] = "&" THEN "&amp;" ELSE s[i]]

\* Variant: the identifier is the one drawn first, kept for later calls.
generateAuthNRequestCachedID(self, id, issueInstant) ==
    <<"<samlp:AuthnRequest ID=\"", IdStrings[1],
      "\" Version=\"2.0\" IssueInstant=\"", issueInstant, "\" Destination=\"">>
    \o EscapeXML(URLToString(self.idpURL))
    \o <<"\" AssertionConsumerServiceURL=\"">> \o EscapeXML(self.assertionEndpoint)
    \o <<"\"><saml:Issuer>">> \o EscapeXML(self.assertionEndpoint)
    \o <<"</saml:Issuer><samlp:NameIDPolicy/></samlp:AuthnRequest>">>

\* generateAuthNRequest() (lines 17-38), given the identifier drawn and the
\* text of the clock: the document, as a text.
generateAuthNRequest(self, id, issueInstant) ==
    <<"<samlp:AuthnRequest ID=\"", id,
      "\" Version=\"2.0\" IssueInstant=\"", issueInstant, "\" Destination=\"">>
    \o EscapeXML(URLToString(self.idpURL))
    \o <<"\" AssertionConsumerServiceURL=\"">> \o EscapeXML(self.assertionEndpoint)
    \o <<"\"><saml:Issuer>">> \o EscapeXML(self.assertionEndpoint)
    \o <<"</saml:Issuer><samlp:NameIDPolicy/></samlp:AuthnRequest>">>

\* The Base64 spelling of each piece of text an AuthnRequest is made of.
Base64Pieces ==
    << <<"<samlp:AuthnRequest ID=\"", "PHNhbWxwOkF1dGhuUmVxdWVzdCBJRD0i">>,
       <<"\" Version=\"2.0\" IssueInstant=\"", "IiBWZXJzaW9uPSIyLjAiIElzc3VlSW5zdGFudD0i">>,
       <<"\" Destination=\"", "IiBEZXN0aW5hdGlvbj0i">>,
       <<"\" AssertionConsumerServiceURL=\"", "IiBBc3NlcnRpb25Db25zdW1lclNlcnZpY2VVUkw9Ig">>,
       <<"\"><saml:Issuer>", "Ij48c2FtbDpJc3N1ZXI+">>,
       <<"</saml:Issuer><samlp:NameIDPolicy/></samlp:AuthnRequest>", "PC9zYW1sOklzc3Vlcj48c2FtbHA6TmFtZUlEUG9saWN5Lz48L3NhbWxwOkF1dGhuUmVxdWVzdD4">>,
       <<"_01", "XzAx">>,
       <<"_02", "XzAy">>,
       <<"_03", "XzAz">>,
       <<"_04", "XzA0">>,
       <<"_05", "XzA1">>,
       <<"_06", "XzA2">>,
       <<"1970-01-01T00:00:00.000Z", "MTk3MC0wMS0wMVQwMDowMDowMC4wMDBa">>,
       <<"1970-01-01T00:00:00.001Z", "MTk3MC0wMS0wMVQwMDowMDowMC4wMDFa">>,
       <<"1970-01-01T00:00:00.002Z", "MTk3MC0wMS0wMVQwMDowMDowMC4wMDJa">>,
       <<"1970-01-01T00:00:00.003Z", "MTk3MC0wMS0wMVQwMDowMDowMC4wMDNa">>,
       <<"1970-01-01T00:00:00.004Z", "MTk3MC0wMS0wMVQwMDowMDowMC4wMDRa">>,
       <<"1970-01-01T00:00:00.005Z", "MTk3MC0wMS0wMVQwMDowMDowMC4wMDVa">>,
       <<"1970-01-01T00:00:00.006Z", "MTk3MC0wMS0wMVQwMDowMDowMC4wMDZa">>,
       <<"1970-01-01T00:00:00.007Z", "MTk3MC0wMS0wMVQwMDowMDowMC4wMDda">>,
       <<"https://idp.example.com/sso", "aHR0cHM6Ly9pZHAuZXhhbXBsZS5jb20vc3Nv">>,
       <<"https://sp.example.com/acs", "aHR0cHM6Ly9zcC5leGFtcGxlLmNvbS9hY3M">>,
       <<"urn:example:sp", "dXJuOmV4YW1wbGU6c3A">>,
       <<"?", "Pw">>,
       <<"=", "PQ">>,
       <<"&amp;", "JmFtcDs">>,
       <<" ", "IA">>,
       <<"%", "JQ">>,
       <<"2", "Mg">>,
       <<"0", "MA">>,
       <<"tenant", "dGVuYW50">>,
       <<"acme", "YWNtZQ">>,
       <<"SAMLRequest", "U0FNTFJlcXVlc3Q">>,
       <<"old", "b2xk">>,
       <<"older", "b2xkZXI">>,
       <<"q", "cQ">>,
       <<"b", "Yg">>,
       <<"c", "Yw">> >>

Base64Piece(c) ==
    Base64Pieces[CHOOSE i \in 1..Len(Base64Pieces) : Base64Pieces[i][1] = c][2]

\* Buffer.from(text).toString("base64"): the spelling of each piece, padded
\* with "=" to a multiple of three pieces.
Base64Encode(text) ==
    [i \in 1..Len(text) |-> Base64Piece(text[i])]
    \o [i \in 1..((3 - (Len(text) % 3)) % 3) |-> "="]

SAMLRequestKey == <<"SAMLRequest">>

\* createAuthNURL() (lines 41-46): the URL returned, and the instance as the
\* call leaves it.
createAuthNURL(self, id, issueInstant) ==
    LET encoded == Base64Encode(generateAuthNRequest(self, id, issueInstant))
        url == NewURL(URLToString(self.idpURL))
        params == SearchParamsSet(URLSearchParams(url.query), SAMLRequestKey, encoded)
        updated == [url EXCEPT !.query = SerializeParams(params)]
    IN  [value |-> URLToString(updated), self |-> self]

\* new SAMLRequest(idpURL, assertionEndpoint) (lines 8-15): what it throws,
\* or the instance.
NewSAMLRequest(idpURL, assertionEndpoint) ==
    IF assertionEndpoint = <<>>
    THEN [thrown |-> Str("assertionEndpoint is required.")]
    ELSE IF URLThrows(idpURL) THEN [thrown |-> Str("Invalid URL")]
    ELSE IF URLThrows(assertionEndpoint) THEN [thrown |-> Str("Invalid URL")]
    ELSE [thrown |-> Null,
          self |-> [idpURL |-> NewURL(idpURL), assertionEndpoint |-> assertionEndpoint]]

\* Texts a caller passes as idpURL and as assertionEndpoint.
IdPStrings ==
    { <<>>, <<"not-a-url">>, <<IdPBase>>,
      <<IdPBase, "?", "q", "=", "b", "%", "2", "0", "c", "&", "tenant", "=", "acme">>,
      <<IdPBase, "?", "SAMLRequest", "=", "old", "&", "tenant", "=", "acme", "&",
        "SAMLRequest", "=", "older">> }
ACSStrings == { <<>>, <<"/acs">>, <<ACSBase>>, <<" ", ACSBase>> }

\* No more identifiers are drawn than this.
MaxDraws == 2

----------------------------------------------------------------------------
(* ServiceProvider: the constructor and the factory *)

\* options.f is a non-empty string (JavaScript truthiness of an optional
\* string property).
HasTruthy(options, f) == f \in DOMAIN options /\ options[f] # ""

\* options.f ?? other
OrElse(options, f, other) == IF f \in DOMAIN options THEN options[f] ELSE other

\* Variant: { ...kp, ...options }, the caller's properties win.
SpreadOptionsLast(options, kp) ==
    [f \in DOMAIN options \cup DOMAIN kp |-> IF f \in DOMAIN options THEN options[f] ELSE kp[f]]

\* { ...options, ...kp } (line 55): the properties of kp win.
Spread(options, kp) ==
    [f \in DOMAIN options \cup DOMAIN kp |-> IF f \in DOMAIN kp THEN kp[f] ELSE options[f]]

\* The PEM texts selfsigned.generate gives, by the number of the run.
GeneratedKeys ==
    << [privateKey |-> "private#1", certificate |-> "cert#1"],
       [privateKey |-> "private#2", certificate |-> "cert#2"],
       [privateKey |-> "private#3", certificate |-> "cert#3"],
       [privateKey |-> "private#4", certificate |-> "cert#4"] >>

\* generateKeys(keyLength) (lines 58-68), on its n-th run.
generateKeys(n, keyLength) ==
    [privateKey |-> GeneratedKeys[n].privateKey, certificate |-> GeneratedKeys[n].certificate]

\* new ServiceProvider(options) (lines 37-47), with n identifiers drawn so
\* far: what it throws, or the instance and whether it drew an identifier.
NewServiceProvider(options, n) ==
    IF options.assertionEndpoint = <<>>
    THEN [thrown |-> Str("assertionEndpoint is required.")]
    ELSE IF URLThrows(options.assertionEndpoint) THEN [thrown |-> Str("Invalid URL")]
    ELSE [thrown |-> Null,
          drew |-> "entityID" \notin DOMAIN options,
          self |-> [assertionEndpoint |-> options.assertionEndpoint,
                    entityID |-> OrElse(options, "entityID", generateRandomEntityID(n)),
                    certificate |-> options.certificate,
                    privateKey |-> options.privateKey]]

\* The properties an options object may leave out.
Optional == {"certificate", "privateKey", "entityID", "keyLength"}

\* The options objects callers pass to ServiceProvider.create.
ProviderOptions ==
    { [f \in {"assertionEndpoint"} \cup given |->
          IF f = "assertionEndpoint" THEN endpoint
          ELSE IF f = "certificate" THEN certificate
          ELSE IF f = "privateKey" THEN privateKey
          ELSE IF f = "entityID" THEN "https://sp.example.com"
          ELSE 4096] :
        endpoint \in {<<ACSBase>>, <<"not-a-url">>},
        certificate \in {"", "certA"},
        privateKey \in {"", "keyA"},
        given \in {g \in SUBSET Optional : ("entityID" \in g) <=> ("keyLength" \in g)} }

\* generateKeys runs no more often than this.
MaxKeyPairs == 3

----------------------------------------------------------------------------
(* State *)

VARIABLES
    now,      \* the wall clock, in ms
    inst,     \* the SAMLResponse instance, Null before construction
    thrown,   \* what the last constructor call threw, or Null
    slots,    \* the call slots in use
    calls,    \* per slot: the state of one processXML / processRequest call
    reqs,     \* per slot: the IncomingMessage given to processRequest
    samlRequest,    \* what the last new SAMLRequest(...) gave: the instance, or Null
    lastNew,        \* the last new SAMLRequest(...): its arguments, what it threw
    drawn,          \* how many identifiers the random generator has handed out
    returned,       \* what the SAMLRequest methods have returned, in call order
    creates,        \* per slot: the state of one ServiceProvider.create call
    keygen          \* how many times generateKeys has run

\* The state of the SAMLRequest class and of the ServiceProvider factory.
requestVars == <<samlRequest, lastNew, drawn, returned>>
providerVars == <<creates, keygen>>

responseVars == <<inst, thrown, slots, calls, reqs>>

vars == <<now, inst, thrown, slots, calls, reqs, requestVars, providerVars>>

IdleCall ==
    [pc |-> "idle", api |-> "none", xml |-> Null, decryption |-> Pending,
     assertionXML |-> Null, result |-> Pending, sampled |-> -1, ops |-> {},
     parsed |-> <<>>,
     body |-> <<>>, listeners |-> {}, extraction |-> Pending]

\* A request nobody has been given yet.  wire: the bytes still to arrive;
\* sent: the bytes emitted as data so far; atEnd: the bytes that had been
\* emitted when end was signalled; error: the error the stream signalled;
\* erroredFirst: it signalled the error before it signalled end.
NoRequest ==
    [method |-> "none", wire |-> <<>>, sent |-> <<>>, ended |-> FALSE,
     errored |-> FALSE, atEnd |-> <<>>, error |-> <<>>, erroredFirst |-> FALSE]

\* A create call nobody has made yet.  generation: the run of generateKeys
\* the call made, with the key size it asked for.
IdleCreate ==
    [pc |-> "idle", options |-> Null, kp |-> Null, generation |-> Null,
     result |-> Pending]

Init ==
    /\ now = 0
    /\ inst = Null
    /\ thrown = Null
    /\ slots = {1}
    /\ calls = [r \in Calls |-> IdleCall]
    /\ reqs = [r \in Calls |-> NoRequest]
    /\ samlRequest = Null
    /\ lastNew = Null
    /\ drawn = 0
    /\ returned = <<>>
    /\ creates = [r \in Calls |-> IdleCreate]
    /\ keygen = 0

\* Time passes.
Tick ==
    /\ now < MaxTime
    /\ now' = now + 1
    /\ UNCHANGED <<inst, thrown, slots, calls, reqs, requestVars, providerVars>>

\* new SAMLResponse(decryptOptions)
constructor(decryptOptions) ==
    /\ inst = Null
    /\ IF ~HasTruthy(decryptOptions, "privateKey")
       THEN /\ thrown' = Str("privateKey is required to decrypt assertions.")
            /\ UNCHANGED inst
       ELSE /\ inst' = [decryptOptions |-> decryptOptions]
            /\ thrown' = Null
    /\ UNCHANGED <<now, slots, calls, reqs, requestVars, providerVars>>

\* The effect on a call record of running processXML(xml) up to its await.
EnterProcessXML(c, xml) ==
    LET s == processXMLStart(xml, inst.decryptOptions, now)
    IN  [c EXCEPT !.pc = IF s.settled THEN "done" ELSE "awaitDecrypt",
                  !.xml = xml,
                  !.decryption = IF s.settled THEN Pending ELSE s.decryption,
                  !.assertionXML = IF "assertionXML" \in DOMAIN s THEN s.assertionXML ELSE Null,
                  !.result = IF s.settled THEN s.outcome ELSE Pending,
                  !.sampled = IF "validate" \in s.ops THEN now ELSE -1,
                  !.parsed = s.parsed,
                  !.ops = c.ops \cup s.ops]

\* A caller invokes processXML(xml).
processXML(r, xml) ==
    /\ inst # Null
    /\ r \in slots
    /\ calls[r].pc = "idle"
    /\ calls' = [calls EXCEPT ![r] = EnterProcessXML([@ EXCEPT !.api = "processXML"], xml)]
    /\ UNCHANGED <<now, inst, thrown, slots, reqs, requestVars, providerVars>>

\* processXML resumes after `await this.decryptNode(...)`: a rejection
\* propagates, a plaintext goes to parseAssertion.
ResumeProcessXML(r) ==
    /\ r \in slots
    /\ calls[r].pc = "awaitDecrypt"
    /\ LET d == calls[r].decryption
       IN  calls' = [calls EXCEPT ![r] =
              IF d.kind = "error"
              THEN [@ EXCEPT !.pc = "done", !.result = d]
              ELSE [@ EXCEPT !.pc = "done",
                             !.assertionXML = d.value,
                             !.result = parseAssertion(d.value, now),
                             !.sampled = now,
                             !.parsed = Append(@, d.value),
                             !.ops = @ \cup {"validate"}]]
    /\ UNCHANGED <<now, inst, thrown, slots, reqs, requestVars, providerVars>>

\* Variant: reject(...) without `return`: the handlers are attached to a
\* request that is not a POST as well.
ExtractStartNoReturn(c, req) ==
    [c EXCEPT !.body = <<>>,
              !.listeners = {"data", "error", "end"},
              !.extraction = IF req.method # "POST"
                             THEN Failure(<<"SAML responses must arrive via HTTP POST.">>)
                             ELSE Pending]

\* The executor of extractXMLFromRequest (lines 152-161): a request that is
\* not a POST rejects at once; otherwise the three handlers are attached.
ExtractStart(c, req) ==
    IF req.method # "POST"
    THEN [c EXCEPT !.extraction = Failure(<<"SAML responses must arrive via HTTP POST.">>)]
    ELSE [c EXCEPT !.body = <<>>,
                   !.listeners = {"data", "error", "end"},
                   !.extraction = Pending]

\* A caller invokes processRequest(req); the call awaits the extraction.
processRequest(r, method, bytes) ==
    /\ inst # Null
    /\ r \in slots
    /\ calls[r].pc = "idle"
    /\ LET req == [NoRequest EXCEPT !.method = method, !.wire = bytes]
       IN  /\ reqs' = [reqs EXCEPT ![r] = req]
           /\ calls' = [calls EXCEPT ![r] =
                  ExtractStart([@ EXCEPT !.api = "processRequest", !.pc = "awaitExtract"], req)]
    /\ UNCHANGED <<now, inst, thrown, slots, requestVars, providerVars>>

\* Variant: body = chunk.toString(), each chunk replacing the ones before.
OnDataOverwrite(c, chunk) == [c EXCEPT !.body = BufferToString(chunk)]

\* The "data" handler: body += chunk.toString()
OnData(c, chunk) == [c EXCEPT !.body = @ \o BufferToString(chunk)]

\* Variant: resolve replaces whatever the promise was settled with.
OnEndOverriding(c) ==
    [c EXCEPT !.ops = @ \cup {"decode"},
              !.extraction = Returned(ExtractOnEnd(c.body))]

\* Variant: the body is decoded but the promise is left as it is.
OnEndUnsettled(c) == [c EXCEPT !.ops = @ \cup {"decode"}]

\* The "end" handler: decode the body and resolve; settling a promise that
\* is already settled does nothing.
OnEnd(c) ==
    [c EXCEPT !.ops = @ \cup {"decode"},
              !.extraction = IF @ = Pending THEN Returned(ExtractOnEnd(c.body)) ELSE @]

\* Variant: the error is swallowed, the promise resolves with null.
OnErrorSwallowed(c, err) ==
    [c EXCEPT !.extraction = IF @ = Pending THEN Returned(Null) ELSE @]

\* The "error" handler is reject itself.
OnError(c, err) ==
    [c EXCEPT !.extraction = IF @ = Pending THEN Failure(err) ELSE @]

\* Variant: the body is one buffer of the instance; a chunk reaches the
\* data handler of every call that is reading.
EmitDataShared(r, n) ==
    /\ r \in slots
    /\ reqs[r].method # "none"
    /\ n \in 1..Len(reqs[r].wire)
    /\ LET chunk == SubSeq(reqs[r].wire, 1, n)
       IN  /\ reqs' = [reqs EXCEPT ![r].wire = SubSeq(@, n + 1, Len(@)),
                                   ![r].sent = @ \o chunk]
           /\ calls' = [q \in Calls |->
                  IF "data" \in calls[q].listeners THEN OnData(calls[q], chunk)
                  ELSE calls[q]]
    /\ UNCHANGED <<now, inst, thrown, slots, requestVars, providerVars>>

\* The request emits "data" with the next n bytes.
EmitData(r, n) ==
    /\ r \in slots
    /\ reqs[r].method # "none"
    /\ n \in 1..Len(reqs[r].wire)
    /\ LET chunk == SubSeq(reqs[r].wire, 1, n)
       IN  /\ reqs' = [reqs EXCEPT ![r].wire = SubSeq(@, n + 1, Len(@)),
                                   ![r].sent = @ \o chunk]
           /\ calls' = [calls EXCEPT ![r] =
                  IF "data" \in @.listeners THEN OnData(@, chunk) ELSE @]
    /\ UNCHANGED <<now, inst, thrown, slots, requestVars, providerVars>>

\* The request emits "end".
EmitEnd(r) ==
    /\ r \in slots
    /\ reqs[r].method # "none"
    /\ ~reqs[r].ended
    /\ reqs' = [reqs EXCEPT ![r].ended = TRUE, ![r].atEnd = reqs[r].sent]
    /\ calls' = [calls EXCEPT ![r] = IF "end" \in @.listeners THEN OnEnd(@) ELSE @]
    /\ UNCHANGED <<now, inst, thrown, slots, requestVars, providerVars>>

\* The request emits "error" with the error object err.
EmitError(r, err) ==
    /\ r \in slots
    /\ reqs[r].method # "none"
    /\ ~reqs[r].errored
    /\ reqs' = [reqs EXCEPT ![r].errored = TRUE,
                            ![r].error = err,
                            ![r].erroredFirst = ~reqs[r].ended]
    /\ calls' = [calls EXCEPT ![r] =
           IF "error" \in @.listeners THEN OnError(@, err) ELSE @]
    /\ UNCHANGED <<now, inst, thrown, slots, requestVars, providerVars>>

\* Variant: without `if (!rawXML) return null`, processXML(null) throws a
\* TypeError at xml.replace.
ResumeProcessRequestUnchecked(r) ==
    /\ r \in slots
    /\ calls[r].pc = "awaitExtract"
    /\ calls[r].extraction # Pending
    /\ LET e == calls[r].extraction
       IN  calls' = [calls EXCEPT ![r] =
              IF e.kind = "error"
              THEN [@ EXCEPT !.pc = "done", !.result = e]
              ELSE IF ~TruthyText(e.value)
              THEN [@ EXCEPT !.pc = "done", !.result = Failure(<<"TypeError">>)]
              ELSE EnterProcessXML(@, AsXml(e.value.v))]
    /\ UNCHANGED <<now, inst, thrown, slots, reqs, requestVars, providerVars>>

\* processRequest resumes after `await this.extractXMLFromRequest(req)`
\* (lines 35-37): a rejection propagates, a null or empty text gives null,
\* any other text goes to processXML.
ResumeProcessRequest(r) ==
    /\ r \in slots
    /\ calls[r].pc = "awaitExtract"
    /\ calls[r].extraction # Pending
    /\ LET e == calls[r].extraction
       IN  calls' = [calls EXCEPT ![r] =
              IF e.kind = "error"
              THEN [@ EXCEPT !.pc = "done", !.result = e]
              ELSE IF ~TruthyText(e.value)
              THEN [@ EXCEPT !.pc = "done", !.result = Returned(Null)]
              ELSE EnterProcessXML(@, AsXml(e.value.v))]
    /\ UNCHANGED <<now, inst, thrown, slots, reqs, requestVars, providerVars>>

Next ==
    \/ Tick
    \/ \E o \in DecryptOptionsGiven : constructor(o)
    \/ \E r \in Calls, xml \in Envelopes : processXML(r, xml)
    \/ \E r \in Calls : ResumeProcessXML(r)
    \/ \E r \in Calls, b \in Bodies : processRequest(r, "POST", b)
    \/ \E r \in Calls, m \in Methods \ {"POST"}, b \in OtherBodies : processRequest(r, m, b)
    \/ \E r \in Calls, n \in 1..MaxBody : EmitData(r, n)
    \/ \E r \in Calls : EmitEnd(r)
    \/ \E r \in Calls, err \in StreamErrors : EmitError(r, err)
    \/ \E r \in Calls : ResumeProcessRequest(r)

Spec == Init /\ [][Next]_vars

----------------------------------------------------------------------------
(* Two requests at a time on one instance *)

\* The instance, constructed, with both call slots in use.
InitConcurrent ==
    /\ now = 0
    /\ inst = [decryptOptions |-> [privateKey |-> "k1"]]
    /\ thrown = Null
    /\ slots = Calls
    /\ calls = [r \in Calls |-> IdleCall]
    /\ reqs = [r \in Calls |-> NoRequest]
    /\ samlRequest = Null
    /\ lastNew = Null
    /\ drawn = 0
    /\ returned = <<>>
    /\ creates = [r \in Calls |-> IdleCreate]
    /\ keygen = 0

\* The bodies of the two requests: a plaintext assertion not valid before
\* 1 ms, an encrypted assertion, and a body without the field.
ConcurrentBodies ==
    {KV \o PayloadSextets[2], KV \o PayloadSextets[3], <<"a", "=", "a">>}

\* The sizes of the chunks the two requests arrive in.
ChunkSizes == {3, 4}

NextConcurrent ==
    \/ Tick
    \/ \E r \in Calls, b \in ConcurrentBodies : processRequest(r, "POST", b)
    \/ \E r \in Calls, n \in ChunkSizes : EmitData(r, n)
    \/ \E r \in Calls : EmitEnd(r)
    \/ \E r \in Calls : EmitError(r, <<"aborted">>)
    \/ \E r \in Calls : ResumeProcessRequest(r)
    \/ \E r \in Calls : ResumeProcessXML(r)

SpecConcurrent == InitConcurrent /\ [][NextConcurrent]_vars

----------------------------------------------------------------------------
(* One request, with the continuations that are always run *)

\* The steps of one processRequest call on a POST request.  The stream is
\* free to emit data, end and error, or to stay silent for ever.
NextLive ==
    \/ Tick
    \/ constructor([privateKey |-> "k1"])
    \/ \E r \in Calls, b \in ConcurrentBodies : processRequest(r, "POST", b)
    \/ \E r \in Calls, n \in ChunkSizes : EmitData(r, n)
    \/ \E r \in Calls : EmitEnd(r)
    \/ \E r \in Calls : EmitError(r, <<"aborted">>)
    \/ \E r \in Calls : ResumeProcessRequest(r)
    \/ \E r \in Calls : ResumeProcessXML(r)

\* Call r waits for its extraction and that promise has settled: these are
\* the states in which ResumeProcessRequest(r) is enabled.
Ready(r) ==
    /\ r \in slots
    /\ calls[r].pc = "awaitExtract"
    /\ calls[r].extraction # Pending

\* WF_vars(ResumeProcessRequest(r)) written out ([]<>~ENABLED \/ []<>step):
\* that action is the only step that takes call r out of "awaitExtract".
ContinuationRuns(r) ==
    ([]<>(~Ready(r)))
    \/ ([]<><<calls[r].pc = "awaitExtract" /\ calls'[r].pc # "awaitExtract">>_vars)

\* A settled promise has its continuation run (the microtask queue is always
\* drained), and xmlenc.decrypt calls back.  Nothing obliges the stream.
SpecLive ==
    /\ Init
    /\ [][NextLive]_vars
    /\ ContinuationRuns(1) /\ ContinuationRuns(2)
    /\ WF_vars(\E r \in Calls : ResumeProcessXML(r))

----------------------------------------------------------------------------
(* ServiceProvider: the calls *)

\* The constructor runs for create call c on the given options.
Construct(c, options) ==
    LET made == NewServiceProvider(options, drawn)
    IN  [c EXCEPT !.pc = "done",
                  !.result = IF made.thrown # Null THEN Failure(<<made.thrown.v>>)
                             ELSE Returned(made.self)]

\* The constructor, run on these options, draws an identifier.
Draws(options) ==
    LET made == NewServiceProvider(options, drawn)
    IN  made.thrown = Null /\ made.drew

\* A caller invokes ServiceProvider.create(options) (lines 50-56): with both
\* a certificate and a private key the instance is constructed at once;
\* otherwise generateKeys runs and the call awaits its promise.
create(r, options) ==
    /\ creates[r].pc = "idle"
    /\ IF HasTruthy(options, "certificate") /\ HasTruthy(options, "privateKey")
       THEN /\ Draws(options) => drawn < MaxDraws
            /\ creates' = [creates EXCEPT ![r] = Construct([@ EXCEPT !.options = options], options)]
            /\ drawn' = IF Draws(options) THEN drawn + 1 ELSE drawn
            /\ UNCHANGED keygen
       ELSE /\ keygen < MaxKeyPairs
            /\ keygen' = keygen + 1
            /\ creates' = [creates EXCEPT ![r] =
                   [@ EXCEPT !.pc = "awaitKeys",
                             !.options = options,
                             !.generation = [run |-> keygen + 1,
                                             keySize |-> OrElse(options, "keyLength", 2048)],
                             !.kp = generateKeys(keygen + 1,
                                                 OrElse(options, "keyLength", 2048))]]
            /\ UNCHANGED drawn
    /\ UNCHANGED <<now, responseVars, samlRequest, lastNew, returned>>

\* create resumes after `await ServiceProvider.generateKeys(...)`.
ResumeCreate(r) ==
    /\ creates[r].pc = "awaitKeys"
    /\ LET merged == Spread(creates[r].options, creates[r].kp)
       IN  /\ Draws(merged) => drawn < MaxDraws
           /\ creates' = [creates EXCEPT ![r] = Construct(@, merged)]
           /\ drawn' = IF Draws(merged) THEN drawn + 1 ELSE drawn
    /\ UNCHANGED <<now, responseVars, samlRequest, lastNew, returned, keygen>>

\* Somebody calls the static ServiceProvider.generateKeys() directly.
CallGenerateKeys ==
    /\ keygen < MaxKeyPairs
    /\ keygen' = keygen + 1
    /\ UNCHANGED <<now, responseVars, requestVars, creates>>

NextProvider ==
    \/ \E r \in Calls, o \in ProviderOptions : create(r, o)
    \/ \E r \in Calls : ResumeCreate(r)
    \/ CallGenerateKeys

SpecProvider == Init /\ [][NextProvider]_vars

----------------------------------------------------------------------------
(* SAMLRequest: the calls *)

\* A caller evaluates new SAMLRequest(idpURL, assertionEndpoint).
SAMLRequestConstructor(idpURL, assertionEndpoint) ==
    /\ LET made == NewSAMLRequest(idpURL, assertionEndpoint)
       IN  /\ lastNew' = [idpURL |-> idpURL, assertionEndpoint |-> assertionEndpoint,
                          thrown |-> made.thrown]
           /\ samlRequest' = IF made.thrown = Null THEN made.self ELSE Null
    /\ UNCHANGED <<now, responseVars, drawn, returned, providerVars>>

\* A caller invokes generateAuthNRequest() on the instance.
CallGenerateAuthNRequest ==
    /\ samlRequest # Null
    /\ drawn < MaxDraws
    /\ drawn' = drawn + 1
    /\ returned' = Append(returned,
          [op |-> "generateAuthNRequest", self |-> samlRequest, after |-> samlRequest,
           value |-> generateAuthNRequest(samlRequest, generateRandomEntityID(drawn),
                                          toISOString(DateOf(now)))])
    /\ UNCHANGED <<now, responseVars, samlRequest, lastNew, providerVars>>

\* A caller invokes createAuthNURL() on the instance.
CallCreateAuthNURL ==
    /\ samlRequest # Null
    /\ drawn < MaxDraws
    /\ LET got == createAuthNURL(samlRequest, generateRandomEntityID(drawn),
                                 toISOString(DateOf(now)))
       IN  /\ samlRequest' = got.self
           /\ returned' = Append(returned,
                 [op |-> "createAuthNURL", self |-> samlRequest, after |-> got.self,
                  value |-> got.value])
    /\ drawn' = drawn + 1
    /\ UNCHANGED <<now, responseVars, lastNew, providerVars>>

NextRequest ==
    \/ \E a \in IdPStrings, b \in ACSStrings : SAMLRequestConstructor(a, b)
    \/ CallGenerateAuthNRequest
    \/ CallCreateAuthNURL

SpecRequest == Init /\ [][NextRequest]_vars

----------------------------------------------------------------------------
(* Reading the state and the documents, for the properties below *)

Settled(r) == calls[r].pc = "done"
\* parseAssertion ran: on calls[r].assertionXML, at clock value calls[r].sampled.
Validated(r) == "validate" \in calls[r].ops
ReturnedRecord(r) == calls[r].result.kind = "value" /\ calls[r].result.value # Null
ReturnedNull(r) == calls[r].result = Returned(Null)
FailedWith(r, text) == calls[r].result.kind = "error" /\ calls[r].result.message[1] = text

WellFormed(x) == x # Null /\ "src" \in DOMAIN x
ElementsNamed(x, names) ==
    LET Has(n) == n.tag \in names IN SelectSeq(DocOrder(<<x.src>>), Has)

\* The Conditions elements of an assertion text that carry the attribute.
Carrying(x, name) ==
    LET Has(n) == name \in DOMAIN n.attrs
    IN  SelectSeq(ElementsNamed(x, {"Conditions", "saml2:Conditions"}), Has)
BoundPresent(x, name) == WellFormed(x) /\ Carrying(x, name) # <<>>
BoundText(x, name) == Carrying(x, name)[1].attrs[name]
IsTimestamp(text) == text \in {IsoString[i] : i \in 1..Len(IsoString)}
MsOf(text) == (CHOOSE i \in 1..Len(IsoString) : IsoString[i] = text) - 1
\* The attribute is written with a value (not NotBefore="").
BoundGiven(x, name) == BoundPresent(x, name) /\ BoundText(x, name) # ""
\* The bound is present and denotes a timestamp.
Bounded(x, name) == BoundPresent(x, name) /\ IsTimestamp(BoundText(x, name))
BoundMs(x, name) == MsOf(BoundText(x, name))

NotYetValidText == "Assertion not yet valid. NotBefore: "
ExpiredText == "Assertion has expired. NotOnOrAfter: "

----------------------------------------------------------------------------
(* C1 *)

\* C1: a record is returned only if, at the sampled instant, every bound
\* present in Conditions holds (NotBefore <= now, now < NotOnOrAfter); a
\* validated assertion with a bound that does not hold fails.
C1_RecordOnlyWithinBounds ==
    \A r \in Calls :
        (Validated(r) /\ WellFormed(calls[r].assertionXML)) =>
            LET x == calls[r].assertionXML
                t == calls[r].sampled
                holds ==
                    /\ BoundGiven(x, "NotBefore") =>
                          (Bounded(x, "NotBefore") /\ BoundMs(x, "NotBefore") <= t)
                    /\ BoundGiven(x, "NotOnOrAfter") =>
                          (Bounded(x, "NotOnOrAfter") /\ t < BoundMs(x, "NotOnOrAfter"))
            IN  /\ ReturnedRecord(r) => holds
                /\ ~holds => calls[r].result.kind = "error"

----------------------------------------------------------------------------
(* C2 *)

ExpiredCase(r) ==
    /\ Validated(r)
    /\ Bounded(calls[r].assertionXML, "NotOnOrAfter")
    /\ BoundMs(calls[r].assertionXML, "NotOnOrAfter") <= calls[r].sampled

NotBeforeInFuture(r) ==
    /\ Bounded(calls[r].assertionXML, "NotBefore")
    /\ BoundMs(calls[r].assertionXML, "NotBefore") > calls[r].sampled

\* C2 as stated: NotOnOrAfter <= now gives AssertionExpired whatever
\* NotBefore is.
C2_ExpiredWhateverNotBefore ==
    \A r \in Calls : ExpiredCase(r) => FailedWith(r, ExpiredText)

\* C2 amended: NotOnOrAfter <= now gives AssertionExpired unless NotBefore is
\* in the future; then the NotBefore check, which runs first, gives
\* AssertionNotYetValid.  Either way no record is returned.
C2_ExpiredUnlessNotYetValid ==
    \A r \in Calls :
        ExpiredCase(r) =>
            /\ ~NotBeforeInFuture(r) =>
                  calls[r].result =
                      Failure(<<ExpiredText, BoundText(calls[r].assertionXML, "NotOnOrAfter")>>)
            /\ NotBeforeInFuture(r) => FailedWith(r, NotYetValidText)

\* The boundary NotOnOrAfter = now, with a NotBefore in the past.
C2_Witness ==
    \E r \in Calls :
        /\ ExpiredCase(r)
        /\ BoundMs(calls[r].assertionXML, "NotOnOrAfter") = calls[r].sampled
        /\ Bounded(calls[r].assertionXML, "NotBefore")
        /\ ~NotBeforeInFuture(r)
        /\ FailedWith(r, ExpiredText)

----------------------------------------------------------------------------
(* C3 *)

\* C3: NotBefore > now gives AssertionNotYetValid, whatever NotOnOrAfter is.
C3_NotYetValid ==
    \A r \in Calls :
        (Validated(r) /\ NotBeforeInFuture(r)) =>
            calls[r].result =
                Failure(<<NotYetValidText, BoundText(calls[r].assertionXML, "NotBefore")>>)

\* A NotBefore in the future together with a NotOnOrAfter already passed.
C3_Witness ==
    \E r \in Calls :
        /\ Validated(r) /\ NotBeforeInFuture(r) /\ ExpiredCase(r)
        /\ FailedWith(r, NotYetValidText)

----------------------------------------------------------------------------
(* C4 *)

PlainPath(r) == Validated(r) /\ "decrypt" \notin calls[r].ops

InsideWindow(r) ==
    /\ Bounded(calls[r].assertionXML, "NotBefore")
    /\ Bounded(calls[r].assertionXML, "NotOnOrAfter")
    /\ BoundMs(calls[r].assertionXML, "NotBefore") <= calls[r].sampled
    /\ calls[r].sampled < BoundMs(calls[r].assertionXML, "NotOnOrAfter")

\* C4: a plaintext assertion with NotBefore <= now < NotOnOrAfter yields a
\* record whose notBefore and notOnOrAfter are the bounds of Conditions.
C4_AcceptedInsideWindow ==
    \A r \in Calls :
        (PlainPath(r) /\ InsideWindow(r)) =>
            /\ ReturnedRecord(r)
            /\ calls[r].result.value.notBefore =
                  DateOf(BoundMs(calls[r].assertionXML, "NotBefore"))
            /\ calls[r].result.value.notOnOrAfter =
                  DateOf(BoundMs(calls[r].assertionXML, "NotOnOrAfter"))

\* The boundary now = NotBefore, after the clock has moved.
C4_Witness ==
    \E r \in Calls :
        /\ PlainPath(r) /\ InsideWindow(r) /\ ReturnedRecord(r)
        /\ calls[r].sampled = BoundMs(calls[r].assertionXML, "NotBefore")
        /\ calls[r].sampled > 0

----------------------------------------------------------------------------
(* C5 *)

HasConditions(x) == ElementsNamed(x, {"Conditions", "saml2:Conditions"}) # <<>>

\* C5: a bound that is missing raises no temporal failure, and the record
\* carries null for it.
C5_AbsentBoundUnconstrained ==
    \A r \in Calls :
        (Validated(r) /\ WellFormed(calls[r].assertionXML)) =>
            LET x == calls[r].assertionXML
            IN  /\ ~BoundPresent(x, "NotBefore") =>
                      /\ ~FailedWith(r, NotYetValidText)
                      /\ ReturnedRecord(r) => calls[r].result.value.notBefore = Null
                /\ ~BoundPresent(x, "NotOnOrAfter") =>
                      /\ ~FailedWith(r, ExpiredText)
                      /\ ReturnedRecord(r) => calls[r].result.value.notOnOrAfter = Null
                /\ (~BoundPresent(x, "NotBefore") /\ ~BoundPresent(x, "NotOnOrAfter")) =>
                      ReturnedRecord(r)

\* Late in time: one assertion without Conditions, one with an empty
\* Conditions element, both accepted with null bounds.
C5_Witness ==
    /\ now = MaxTime
    /\ \E r \in Calls :
        /\ Validated(r) /\ ReturnedRecord(r) /\ calls[r].sampled = MaxTime
        /\ HasConditions(calls[r].assertionXML)
        /\ ~BoundPresent(calls[r].assertionXML, "NotBefore")
        /\ ~BoundPresent(calls[r].assertionXML, "NotOnOrAfter")
        /\ calls[r].result.value.notBefore = Null
        /\ calls[r].result.value.notOnOrAfter = Null

----------------------------------------------------------------------------
(* C6 *)

EncryptedNames == {"EncryptedAssertion", "saml2:EncryptedAssertion"}
AssertionNames == {"Assertion", "saml2:Assertion"}

\* processXML was entered with a well-formed envelope.
Entered(r) == WellFormed(calls[r].xml)
HasEncrypted(r) == ElementsNamed(calls[r].xml, EncryptedNames) # <<>>
HasPlain(r) == ElementsNamed(calls[r].xml, AssertionNames) # <<>>
\* The payload of the envelope's EncryptedAssertion element.
CipherIn(r) == ElementsNamed(calls[r].xml, EncryptedNames)[1].cipher
\* It decrypts: right key, intact, no insecure algorithm.
Decryptable(c) ==
    /\ c.key = inst.decryptOptions.privateKey
    /\ c.intact
    /\ c.alg \notin InsecureAlgorithms /\ c.keyAlg \notin InsecureAlgorithms

\* C6: with an EncryptedAssertion in the envelope only its plaintext is ever
\* validated; if it does not decrypt the call fails with the decryption
\* error and nothing is validated.  A plain Assertion is used only when the
\* envelope has no EncryptedAssertion.
C6_EncryptedOnly ==
    \A r \in Calls :
        (Entered(r) /\ HasEncrypted(r)) =>
            /\ "decrypt" \in calls[r].ops
            /\ calls[r].assertionXML \in {Null, CipherIn(r).plain}
            /\ (Settled(r) /\ ~Decryptable(CipherIn(r))) =>
                  /\ FailedWith(r, "Decryption failed: ")
                  /\ Len(calls[r].result.message) = 2
                  /\ calls[r].result.message[2] \in
                        {"bad key", "corrupt ciphertext", "insecure algorithm"}
                  /\ ~Validated(r)
                  /\ calls[r].assertionXML = Null
            /\ (Settled(r) /\ Decryptable(CipherIn(r))) =>
                  /\ Validated(r)
                  /\ calls[r].assertionXML = CipherIn(r).plain

\* An envelope with a plain Assertion and an EncryptedAssertion that does not
\* decrypt: the call has failed.
C6_Witness ==
    \E r \in Calls :
        /\ Entered(r) /\ HasEncrypted(r) /\ HasPlain(r) /\ Settled(r)
        /\ ~Decryptable(CipherIn(r))
        /\ FailedWith(r, "Decryption failed: ")

----------------------------------------------------------------------------
(* C7 *)

\* C7: processXML gives null exactly when the envelope has neither an
\* EncryptedAssertion nor an Assertion element, and then nothing is
\* decrypted or validated.
C7_NullIffNoAssertion ==
    \A r \in Calls :
        (Entered(r) /\ Settled(r)) =>
            /\ ReturnedNull(r) <=> (~HasEncrypted(r) /\ ~HasPlain(r))
            /\ ReturnedNull(r) => calls[r].ops \cap {"decrypt", "validate"} = {}

\* An envelope whose only assertion is written saml:Assertion gives null.
C7_Witness ==
    \E r \in Calls :
        /\ Entered(r) /\ Settled(r) /\ ReturnedNull(r)
        /\ ElementsNamed(calls[r].xml, {"saml:Assertion"}) # <<>>

----------------------------------------------------------------------------
(* C8 *)

MethodNotAllowed == Failure(<<"SAML responses must arrive via HTTP POST.">>)

\* C8: a request that is not a POST fails with MethodNotAllowed; no handler
\* is attached, so whatever it emits nothing is read, parsed or decrypted.
C8_NonPostRejected ==
    \A r \in Calls :
        (reqs[r].method \notin {"none", "POST"}) =>
            /\ calls[r].extraction = MethodNotAllowed
            /\ calls[r].listeners = {}
            /\ calls[r].body = <<>>
            /\ calls[r].ops = {}
            /\ calls[r].xml = Null
            /\ Settled(r) => calls[r].result = MethodNotAllowed

\* A GET that has emitted data and end, and whose call has failed.
C8_Witness ==
    \E r \in Calls :
        /\ reqs[r].method = "GET"
        /\ reqs[r].sent # <<>> /\ reqs[r].ended /\ reqs[r].errored
        /\ Settled(r) /\ calls[r].result = MethodNotAllowed

----------------------------------------------------------------------------
(* C9 *)

\* The body read up to end, as one text.
BodyAtEnd(r) == BufferToString(reqs[r].atEnd)
FieldAtEnd(r) == ParamsGet(URLSearchParams(BodyAtEnd(r)), SAMLResponseKey)
\* No SAMLResponse field, an empty one, or one that decodes to no bytes.
NothingToProcess(r) ==
    \/ FieldAtEnd(r) = Null
    \/ FieldAtEnd(r).v = <<>>
    \/ Base64Decode(FieldAtEnd(r).v) = <<>>

\* The body was read to its end: the extraction resolved.
ReadToEnd(r) == reqs[r].method = "POST" /\ calls[r].extraction.kind = "value"

\* C9: a POST read to its end without a SAMLResponse field, or with one that
\* is empty or decodes to nothing, resolves with null, and processXML is not
\* invoked.
C9_AbsentFieldGivesNull ==
    \A r \in Calls :
        (ReadToEnd(r) /\ NothingToProcess(r)) =>
            /\ calls[r].xml = Null
            /\ calls[r].ops \cap {"parse", "decrypt", "validate"} = {}
            /\ Settled(r) => ReturnedNull(r)

\* A field that is not empty but decodes to nothing, read in two chunks.
C9_Witness ==
    \E r \in Calls :
        /\ ReadToEnd(r) /\ Settled(r) /\ ReturnedNull(r)
        /\ FieldAtEnd(r) # Null /\ FieldAtEnd(r).v # <<>>
        /\ Base64Decode(FieldAtEnd(r).v) = <<>>

----------------------------------------------------------------------------
(* C10 *)

\* C10: however the body was cut into chunks, the extraction resolves with
\* what the whole body in one chunk gives, and nothing is decoded, parsed or
\* resolved before end.
C10_ChunkingInvisible ==
    \A r \in Calls :
        (reqs[r].method = "POST") =>
            /\ calls[r].extraction.kind = "value" =>
                  calls[r].extraction.value = ExtractOnEnd(BodyAtEnd(r))
            /\ ~reqs[r].ended =>
                  /\ calls[r].ops = {}
                  /\ calls[r].extraction.kind # "value"
                  /\ calls[r].xml = Null

\* A body carrying a document, cut inside a two-byte character: the text
\* accumulated from the chunks differs from the text of the whole body.
C10_Witness ==
    \E r \in Calls :
        /\ reqs[r].method = "POST" /\ Settled(r) /\ ReturnedRecord(r)
        /\ calls[r].extraction.kind = "value"
        /\ Len(reqs[r].atEnd) >= 7
        /\ calls[r].body # BodyAtEnd(r)

----------------------------------------------------------------------------
(* C11 *)

\* The stream of a POST signalled an error before it signalled end.
ErroredBeforeEnd(r) == reqs[r].method = "POST" /\ reqs[r].erroredFirst

\* C11: when the stream signals an error before end, the extraction and
\* the call reject with that very error, however many chunks came before
\* and whatever the stream emits afterwards, and the body is never parsed
\* as XML, decrypted or validated.
C11_StreamErrorSurfaces ==
    \A r \in Calls :
        ErroredBeforeEnd(r) =>
            /\ calls[r].extraction = Failure(reqs[r].error)
            /\ Settled(r) => calls[r].result = Failure(reqs[r].error)
            /\ calls[r].ops \cap {"parse", "decrypt", "validate"} = {}
            /\ calls[r].xml = Null

\* Two chunks of a body that carries a document, then the error, then the
\* rest of the body and end: the call has rejected with the error.
C11_Witness ==
    \E r \in Calls :
        /\ ErroredBeforeEnd(r) /\ reqs[r].ended
        /\ reqs[r].error = <<"aborted">>
        /\ Len(calls[r].body) >= 2 /\ Len(reqs[r].atEnd) >= 7
        /\ ExtractOnEnd(BodyAtEnd(r)) # Null
        /\ Settled(r) /\ calls[r].result = Failure(<<"aborted">>)

----------------------------------------------------------------------------
(* C12 *)

\* The Attribute elements of an assertion text that parseAssertion reads.
Located(x) ==
    IF ElementsNamed(x, {"saml2:Attribute"}) # <<>>
    THEN ElementsNamed(x, {"saml2:Attribute"})
    ELSE ElementsNamed(x, {"Attribute"})
HasName(el) == "Name" \in DOMAIN el.attrs /\ el.attrs.Name # ""
Named(els) == SelectSeq(els, HasName)

\* The names of the elements, each once, in order of first appearance.
RECURSIVE DistinctNames(_, _)
DistinctNames(els, seen) ==
    IF els = <<>> THEN <<>>
    ELSE IF Head(els).attrs.Name \in seen THEN DistinctNames(Tail(els), seen)
    ELSE <<Head(els).attrs.Name>>
         \o DistinctNames(Tail(els), seen \cup {Head(els).attrs.Name})

\* The texts of the AttributeValue elements of an Attribute, in order, those
\* that are not empty.
ValueTexts(el) ==
    LET IsValue(n) == n.tag \in {"AttributeValue", "saml2:AttributeValue"}
        vs == SelectSeq(DocOrder(el.kids), IsValue)
        NonEmpty(t) == t # <<>>
    IN  SelectSeq([i \in 1..Len(vs) |-> textContent(vs[i])], NonEmpty)

Keys(obj) == [i \in 1..Len(obj) |-> obj[i].name]

\* C12: the attributes of an accepted assertion have one key for each
\* distinct Name among the Attribute elements read, in the order the names
\* first appear in the document; each key holds the value texts of an
\* Attribute of that name, in document order; without Attribute elements
\* the mapping is empty.  (An element without a Name or with Name="" counts
\* as unnamed, and empty value texts are not asked for here.)
C12_AttributesInDocumentOrder ==
    \A r \in Calls :
        (Validated(r) /\ ReturnedRecord(r)) =>
            LET els == Named(Located(calls[r].assertionXML))
                attributes == calls[r].result.value.attributes
            IN  /\ Keys(attributes) = DistinctNames(els, {})
                /\ \A i \in 1..Len(attributes) :
                      \E j \in 1..Len(els) :
                          /\ els[j].attrs.Name = attributes[i].name
                          /\ attributes[i].values = ValueTexts(els[j])
                /\ Located(calls[r].assertionXML) = <<>> => attributes = <<>>

----------------------------------------------------------------------------
(* C13 *)

LocalNames ==
    {"Assertion", "Conditions", "Subject", "NameID", "AttributeStatement",
     "Attribute", "AttributeValue"}
Saml2Names == {Q("saml2", l) : l \in LocalNames}
LocalOf(tag) == CHOOSE l \in LocalNames : Q("saml2", l) = tag

Tags(x) == {DocOrder(<<x.src>>)[i].tag : i \in 1..Len(DocOrder(<<x.src>>))}
\* Every SAML element of the text is written without a prefix / with saml2:.
AllUnprefixed(x) == Tags(x) \cap LocalNames # {} /\ Tags(x) \cap Saml2Names = {}
AllPrefixed(x) == Tags(x) \cap Saml2Names # {} /\ Tags(x) \cap LocalNames = {}

\* The same markup with every SAML element given, or stripped of, the prefix.
RECURSIVE Renamed(_, _)
Renamed(n, toPrefixed) ==
    IF n.tag = "#text" THEN n
    ELSE [n EXCEPT !.tag = IF toPrefixed /\ @ \in LocalNames THEN Q("saml2", @)
                            ELSE IF ~toPrefixed /\ @ \in Saml2Names THEN LocalOf(@)
                            ELSE @,
                   !.kids = [i \in 1..Len(n.kids) |-> Renamed(n.kids[i], toPrefixed)]]

\* The document that differs from x only in the prefix of its SAML elements.
Twin(x) == Xml(Renamed(x.src, AllUnprefixed(x)))

\* Same kind of outcome and, for a record, the same fields but xml.
Equivalent(a, b) ==
    /\ a.kind = b.kind
    /\ a.kind = "error" => a.message = b.message
    /\ a.kind = "value" =>
          /\ (a.value = Null) <=> (b.value = Null)
          /\ a.value # Null =>
                /\ a.value.nameID = b.value.nameID
                /\ a.value.attributes = b.value.attributes
                /\ a.value.notBefore = b.value.notBefore
                /\ a.value.notOnOrAfter = b.value.notOnOrAfter

\* processXML ran on a plaintext document written throughout with, or
\* throughout without, the saml2: prefix.
UniformPlain(r) ==
    /\ Entered(r) /\ Settled(r) /\ ~HasEncrypted(r)
    /\ AllUnprefixed(calls[r].xml) \/ AllPrefixed(calls[r].xml)

\* C13: the outcome of processXML on such a document is equivalent to its
\* outcome, at the same instant, on the document that differs only in the
\* prefix: same failure, or records with equal nameID, attributes, notBefore
\* and notOnOrAfter.
C13_PrefixEquivalence ==
    \A r \in Calls :
        UniformPlain(r) =>
            LET t == IF Validated(r) THEN calls[r].sampled ELSE now
                twin == processXMLStart(Twin(calls[r].xml), inst.decryptOptions, t)
            IN  /\ twin.settled
                /\ Equivalent(calls[r].result, twin.outcome)

\* A saml2-prefixed assertion with two attributes has been accepted, and its
\* unprefixed twin is a different text.
C13_Witness ==
    \E r \in Calls :
        /\ UniformPlain(r) /\ AllPrefixed(calls[r].xml) /\ ReturnedRecord(r)
        /\ Len(calls[r].result.value.attributes) = 2
        /\ calls[r].result.value.nameID = Str(<<"u">>)
        /\ AllUnprefixed(Twin(calls[r].xml))
        /\ Twin(calls[r].xml) # calls[r].xml

----------------------------------------------------------------------------
(* C14 *)

\* The characters of all the texts of a document.
Chars(x) == ConcatText(DocOrder(<<x.src>>))
HasCR(x) == \E i \in 1..Len(Chars(x)) : Chars(x)[i] = "\r"
\* The document with every CRLF and every lone CR written as LF.
WithLF(x) == Xml(NormaliseTree(x.src))

\* What processXML gives on a plaintext document at clock value t.
PlainOutcome(x, t) == processXMLStart(x, inst.decryptOptions, t).outcome

\* C14: on a plaintext document processXML gives the outcome, and the
\* record with its xml field, that it gives at the same instant on the LF
\* spelling of the document; a document written with LF gives the same when
\* each LF is written CRLF or CR; and normalising twice changes nothing.
C14_LineEndingsInvisible ==
    \A r \in Calls :
        (Entered(r) /\ Settled(r) /\ ~HasEncrypted(r)) =>
            LET x == calls[r].xml
                t == IF Validated(r) THEN calls[r].sampled ELSE now
            IN  /\ calls[r].result = PlainOutcome(WithLF(x), t)
                /\ ~HasCR(x) =>
                      \A eol \in {CRLF, CR} :
                          PlainOutcome(Xml(WithEOL(x.src, eol)), t) = calls[r].result
                /\ normalise(normalise(x)) = normalise(x)
                /\ ReturnedRecord(r) => ~HasCR(calls[r].result.value.xml)

\* A document written with CRLF, its line breaks inside the NameID and an
\* attribute value included, has been accepted.
C14_Witness ==
    \E r \in Calls :
        /\ Entered(r) /\ Settled(r) /\ ~HasEncrypted(r) /\ ReturnedRecord(r)
        /\ calls[r].xml \in {Xml(WithEOL(x.src, CRLF)) : x \in LFEnvelopes}
        /\ HasCR(calls[r].xml)
        /\ calls[r].result.value.nameID = Str(<<"u", "\n", "v">>)
        /\ calls[r].result.value.xml = Xml(MultiLine("saml2"))

----------------------------------------------------------------------------
(* C15 *)

\* The calls of createAuthNURL so far, by their place in the record.
URLCalls == {i \in 1..Len(returned) : returned[i].op = "createAuthNURL"}

\* The query parameters of a URL text, as a reader of the URL gets them.
ParamsOf(text) == URLSearchParams(NewURL(text).query)
IsSAMLRequest(pair) == pair.name = SAMLRequestKey
IsOther(pair) == pair.name # SAMLRequestKey

----------------------------------------------------------------------------
(* C16 *)

DocCalls == {i \in 1..Len(returned) : returned[i].op = "generateAuthNRequest"}
\* The ID attribute of an AuthnRequest text.
IdOf(doc) == doc[2]
\* The SAMLRequest parameter of a returned URL.
SAMLRequestOf(text) == ParamsGet(ParamsOf(text), SAMLRequestKey)

\* C16: every call draws one identifier from the generator, the document
\* carries the one drawn for it, and so any two documents have different
\* IDs and any two URLs differ, as texts and in their SAMLRequest values,
\* whether the calls were on one instance or on two, at the same instant or
\* not.
C16_FreshIdentifiers ==
    /\ drawn = Len(returned)
    /\ \A i \in DocCalls : IdOf(returned[i].value) = IdStrings[i]
    /\ \A i \in URLCalls :
          SAMLRequestOf(returned[i].value).v[2] = Base64Piece(IdStrings[i])
    /\ \A i, j \in DocCalls : i # j => IdOf(returned[i].value) # IdOf(returned[j].value)
    /\ \A i, j \in URLCalls :
          i # j => /\ returned[i].value # returned[j].value
                   /\ SAMLRequestOf(returned[i].value) # SAMLRequestOf(returned[j].value)

\* Two URLs from one instance at one instant: they differ although nothing
\* but the identifier does.
C16_Witness ==
    /\ URLCalls = {1, 2}
    /\ returned[1].self = returned[2].self
    /\ returned[1].self.idpURL.query = <<>>
    /\ returned[1].value # returned[2].value
    /\ Len(returned[1].value) = Len(returned[2].value)

----------------------------------------------------------------------------
(* C17 *)

\* The text is a syntactically valid absolute URI: a scheme and what
\* follows it, with no space anywhere.
IsAbsoluteURI(s) ==
    /\ s # <<>>
    /\ s[1] \in AbsoluteBases
    /\ Len(s) >= 2 => s[2] = "?"
    /\ \A i \in 1..Len(s) : s[i] # " "

\* C17: new SAMLRequest(idpURL, assertionEndpoint) throws exactly when one
\* of the two is empty or is not a valid absolute URI, and an instance holds
\* two valid absolute URIs.
C17_OnlyAbsoluteURIs ==
    /\ lastNew # Null =>
          (lastNew.thrown # Null
              <=> ~(IsAbsoluteURI(lastNew.idpURL) /\ IsAbsoluteURI(lastNew.assertionEndpoint)))
    /\ samlRequest # Null =>
          /\ IsAbsoluteURI(URLToString(samlRequest.idpURL))
          /\ IsAbsoluteURI(samlRequest.assertionEndpoint)

----------------------------------------------------------------------------
(* C18 *)

\* The caller supplied both a certificate and a private key.
BothSupplied(o) == HasTruthy(o, "certificate") /\ HasTruthy(o, "privateKey")
Created(r) == creates[r].pc = "done" /\ creates[r].result.kind = "value"

\* C18: an instance made by create holds either the caller's certificate
\* and private key, both, and then the call generated nothing, or the
\* certificate and the private key of the one generateKeys run the call
\* made; a call given both generates nothing even when it fails, and no two
\* calls share a run.
C18_KeysBelongTogether ==
    /\ \A r \in Calls :
          creates[r].pc # "idle" =>
              LET o == creates[r].options
                  g == creates[r].generation
              IN  /\ BothSupplied(o) <=> g = Null
                  /\ (Created(r) /\ BothSupplied(o)) =>
                        /\ creates[r].result.value.certificate = o.certificate
                        /\ creates[r].result.value.privateKey = o.privateKey
                  /\ (Created(r) /\ ~BothSupplied(o)) =>
                        /\ g.run \in 1..keygen
                        /\ creates[r].result.value.certificate = GeneratedKeys[g.run].certificate
                        /\ creates[r].result.value.privateKey = GeneratedKeys[g.run].privateKey
    /\ \A r, q \in Calls :
          (r # q /\ creates[r].generation # Null /\ creates[q].generation # Null) =>
              creates[r].generation.run # creates[q].generation.run

\* A call given a certificate but no private key, overtaken by another
\* call's key generation, has made its instance: it holds the pair of its
\* own run and not the caller's certificate.
C18_Witness ==
    \E r, q \in Calls :
        /\ r # q /\ Created(r) /\ Created(q)
        /\ HasTruthy(creates[r].options, "certificate")
        /\ "privateKey" \notin DOMAIN creates[r].options
        /\ creates[r].generation.run = 1 /\ creates[q].generation # Null
        /\ creates[r].result.value.certificate = "cert#1"
        /\ creates[r].result.value.privateKey = "private#1"

----------------------------------------------------------------------------
(* C19 *)

\* A decryption was performed for call r.
Decrypted(r) == "decrypt" \in calls[r].ops

\* What the decryption capability answers for the EncryptedAssertion of
\* call r when it is given this key and refuses insecure algorithms.
StrictDecryption(r, key) ==
    LET got == XmlencDecrypt(Xml(ElementsNamed(calls[r].xml, EncryptedNames)[1]),
                             [key |-> key,
                              disallowDecryptionWithInsecureAlgorithm |-> TRUE,
                              warnInsecureAlgorithm |-> TRUE])
    IN  IF got.err # Null THEN Failure(<<"Decryption failed: ", got.err.v>>)
        ELSE Returned(got.result)

\* C19: a constructor call with an empty or missing privateKey throws
\* 'privateKey is required' and gives no instance, so an instance holds a
\* non-empty key, no call runs without an instance, and every decryption is
\* the one the capability performs with that key and insecure algorithms
\* disallowed.
C19_KeyRequired ==
    /\ thrown # Null =>
          /\ thrown = Str("privateKey is required to decrypt assertions.")
          /\ inst = Null
    /\ inst # Null => HasTruthy(inst.decryptOptions, "privateKey")
    /\ \A r \in Calls :
          /\ calls[r].pc # "idle" => inst # Null
          /\ Decrypted(r) =>
                calls[r].decryption =
                    StrictDecryption(r, inst.decryptOptions.privateKey)

\* The instance holds the key the payload was encrypted for, but the
\* payload uses an insecure algorithm: the call has failed.
C19_Witness ==
    \E r \in Calls :
        /\ Decrypted(r) /\ Settled(r)
        /\ CipherIn(r).key = inst.decryptOptions.privateKey
        /\ CipherIn(r).intact
        /\ calls[r].result = Failure(<<"Decryption failed: ", "insecure algorithm">>)

----------------------------------------------------------------------------
(* C20 *)

\* How the extraction of call r stands, going by the events of its own
\* request alone.
SoloExtraction(r) ==
    IF reqs[r].method # "POST" THEN MethodNotAllowed
    ELSE IF reqs[r].erroredFirst THEN Failure(reqs[r].error)
    ELSE IF reqs[r].ended THEN Returned(ExtractOnEnd(BodyAtEnd(r)))
    ELSE Pending

\* The outcome of call r running alone on its own request, with the clock
\* read when call r read it.
SoloResult(r) ==
    LET e == SoloExtraction(r)
        t == IF Validated(r) THEN calls[r].sampled ELSE now
    IN  IF e.kind = "error" THEN e
        ELSE IF ~TruthyText(e.value) THEN Returned(Null)
        ELSE LET s == processXMLStart(AsXml(e.value.v), [privateKey |-> "k1"], t)
             IN  IF s.settled THEN s.outcome
                 ELSE IF s.decryption.kind = "error" THEN s.decryption
                 ELSE parseAssertion(s.decryption.value, t)

\* C20: with two processRequest calls in flight on one instance, under any
\* interleaving of their requests' events, each call reads only its own
\* request: its extraction and its outcome are those of the call running
\* alone, and the instance stays as constructed.
C20_CallsDoNotInteract ==
    /\ inst = [decryptOptions |-> [privateKey |-> "k1"]]
    /\ \A r \in Calls :
          calls[r].pc # "idle" =>
              /\ calls[r].extraction = SoloExtraction(r)
              /\ Settled(r) => calls[r].result = SoloResult(r)

\* One call has read its whole body, decrypted it and returned a record;
\* the other, on a different body, read a part of it and failed on a
\* stream error.
C20_Witness ==
    \E r, q \in Calls :
        /\ r # q
        /\ Settled(r) /\ ReturnedRecord(r) /\ "decrypt" \in calls[r].ops
        /\ Settled(q) /\ calls[q].result = Failure(<<"aborted">>)
        /\ calls[q].body # <<>> /\ calls[q].body # calls[r].body
        /\ Len(calls[q].body) < Len(calls[r].body)

----------------------------------------------------------------------------
(* C21 *)

\* The NameID elements of an assertion text in the order they are looked
\* up: the saml2-prefixed ones, then the unprefixed ones.
NameIDsLookedUp(x) ==
    ElementsNamed(x, {"saml2:NameID"}) \o ElementsNamed(x, {"NameID"})

\* C21: in a record returned for an assertion, nameID is the text content
\* of the first NameID element looked up (saml2-prefixed before unprefixed);
\* it is null when the assertion has no NameID element and when that element
\* has no text.
C21_NameIDOrNull ==
    \A r \in Calls :
        (Validated(r) /\ ReturnedRecord(r)) =>
            LET found == NameIDsLookedUp(calls[r].assertionXML)
                nameID == calls[r].result.value.nameID
            IN  IF found = <<>> \/ textContent(found[1]) = <<>>
                THEN nameID = Null
                ELSE nameID = Str(textContent(found[1]))

----------------------------------------------------------------------------
(* C22 *)

\* The AttributeValue elements of an Attribute element that are read: the
\* saml2-prefixed ones if it has any, else the unprefixed ones.
ValuesLocated(el) ==
    LET Prefixed(n) == n.tag = "saml2:AttributeValue"
        Plain(n) == n.tag = "AttributeValue"
    IN  IF SelectSeq(DocOrder(el.kids), Prefixed) # <<>>
        THEN SelectSeq(DocOrder(el.kids), Prefixed)
        ELSE SelectSeq(DocOrder(el.kids), Plain)

\* The text content of each of them, in document order.
EveryValueText(el) ==
    [i \in 1..Len(ValuesLocated(el)) |-> textContent(ValuesLocated(el)[i])]

\* The located elements that carry the given Name.
WithName(els, name) ==
    LET Same(el) == HasName(el) /\ el.attrs.Name = name IN SelectSeq(els, Same)

\* C22: every key of the attributes mapping is the Name of a located
\* Attribute element, and the sequence stored under it has exactly one entry
\* for each AttributeValue element of that Attribute (of the last one, when
\* several carry the Name): the texts of these elements, in document order.
\* An Attribute without a Name gives no key and changes no other key.
C22_OneEntryPerValue ==
    \A r \in Calls :
        (Validated(r) /\ ReturnedRecord(r)) =>
            LET els == Located(calls[r].assertionXML)
                attributes == calls[r].result.value.attributes
            IN  \A i \in 1..Len(attributes) :
                    LET same == WithName(els, attributes[i].name)
                    IN  /\ same # <<>>
                        /\ attributes[i].values = EveryValueText(same[Len(same)])

----------------------------------------------------------------------------
(* C23 *)

PrefixedAttributes(x) == ElementsNamed(x, {"saml2:Attribute"})
PlainAttributes(x) == ElementsNamed(x, {"Attribute"})

\* The tag set the rule chooses for the whole assertion.
Chosen(x) == IF PrefixedAttributes(x) # <<>> THEN PrefixedAttributes(x) ELSE PlainAttributes(x)

TextSet(texts) == {texts[i] : i \in 1..Len(texts)}

\* A Name the assignment attributes[name] = values makes a key of (C12 is
\* about the one that it does not).
MakesKey(name) == name # "__proto__"

\* C23: the attributes mapping of a record is built from one tag set only.
\* If the assertion has a saml2:Attribute element, every key is the Name of a
\* saml2:Attribute and no unprefixed Attribute gives a key or a value; the
\* unprefixed ones are used only, and then all of them, when there is no
\* saml2:Attribute.  Within an Attribute the values come from its
\* saml2:AttributeValue elements if it has any, else from its unprefixed
\* AttributeValue elements, never from both.
C23_OneTagSetOnly ==
    \A r \in Calls :
        (Validated(r) /\ ReturnedRecord(r)) =>
            LET chosen == Chosen(calls[r].assertionXML)
                attributes == calls[r].result.value.attributes
            IN  /\ \A i \in 1..Len(attributes) :
                      LET same == WithName(chosen, attributes[i].name)
                      IN  /\ same # <<>>
                          /\ TextSet(attributes[i].values)
                                = TextSet(EveryValueText(same[Len(same)])) \ {<<>>}
                /\ \A j \in 1..Len(chosen) :
                      (HasName(chosen[j]) /\ MakesKey(chosen[j].attrs.Name)) =>
                          \E i \in 1..Len(attributes) :
                              attributes[i].name = chosen[j].attrs.Name

\* A record was returned for an assertion that has a named saml2:Attribute,
\* with values of both kinds, and an unprefixed Attribute with a Name and a
\* value of its own: the mapping has the one key, with the one value.
C23_Witness ==
    \E r \in Calls :
        /\ Validated(r) /\ ReturnedRecord(r)
        /\ LET x == calls[r].assertionXML
               attributes == calls[r].result.value.attributes
           IN  /\ \E j \in 1..Len(PrefixedAttributes(x)) :
                     LET kids == DocOrder(PrefixedAttributes(x)[j].kids)
                     IN  /\ HasName(PrefixedAttributes(x)[j])
                         /\ \E k \in 1..Len(kids) : kids[k].tag = "saml2:AttributeValue"
                         /\ \E k \in 1..Len(kids) : kids[k].tag = "AttributeValue"
               /\ \E j \in 1..Len(PlainAttributes(x)) :
                     /\ HasName(PlainAttributes(x)[j])
                     /\ WithName(PrefixedAttributes(x), PlainAttributes(x)[j].attrs.Name) = <<>>
               /\ Len(attributes) = 1 /\ Len(attributes[1].values) = 1

----------------------------------------------------------------------------
(* C24 *)

\* C24: every well-formed text a call gave to the XML parser, the envelope
\* in processXML and the assertion text in parseAssertion (the plaintext of
\* an EncryptedAssertion included), is free of CR: its line endings had been
\* normalised to LF.
C24_ParsedTextsNormalised ==
    \A r \in Calls :
        \A i \in 1..Len(calls[r].parsed) :
            WellFormed(calls[r].parsed[i]) => ~HasCR(calls[r].parsed[i])

----------------------------------------------------------------------------
(* C25 *)

PostCall(r) == calls[r].api = "processRequest" /\ reqs[r].method = "POST"
Signalled(r) == reqs[r].ended \/ reqs[r].errored

\* C25: a processRequest call on a POST request is settled only if the
\* stream has signalled end or error: it stays pending whatever data has
\* arrived, and for ever if neither is signalled.  Once the stream has
\* signalled end or error, the call eventually settles.
C25_SettlesOnEndOrError ==
    /\ [](\A r \in Calls : (PostCall(r) /\ Settled(r)) => Signalled(r))
    /\ \A r \in Calls : (PostCall(r) /\ Signalled(r)) ~> Settled(r)

\* A call that took data, then end, has gone through decryption and
\* returned a record.
C25_Witness ==
    \E r \in Calls :
        /\ PostCall(r) /\ reqs[r].ended /\ ~reqs[r].errored
        /\ reqs[r].atEnd # <<>>
        /\ Decrypted(r) /\ Settled(r) /\ ReturnedRecord(r)

----------------------------------------------------------------------------
(* C26 *)

\* What the first of end and error to be signalled makes of the extraction.
FirstSignalOutcome(r) ==
    IF reqs[r].erroredFirst THEN Failure(reqs[r].error)
    ELSE IF reqs[r].ended THEN Returned(ExtractOnEnd(BodyAtEnd(r)))
    ELSE Pending

\* C26: the extraction of a POST request settles at most once, with what
\* the first of end and error gives: the error if error came first, the
\* decoding of the bytes delivered before end if end came first.  A later
\* error, a later end and later data change nothing.
C26_SettlesOnce ==
    /\ [](\A r \in Calls : PostCall(r) => calls[r].extraction = FirstSignalOutcome(r))
    /\ [][\A r \in Calls :
            (PostCall(r) /\ calls[r].extraction # Pending) =>
                calls'[r].extraction = calls[r].extraction]_vars

\* End came first and gave a text; then came an error and more data.
C26_Witness ==
    \E r \in Calls :
        /\ PostCall(r) /\ reqs[r].ended /\ reqs[r].errored /\ ~reqs[r].erroredFirst
        /\ reqs[r].sent # reqs[r].atEnd
        /\ calls[r].extraction.kind = "value" /\ calls[r].extraction.value # Null

----------------------------------------------------------------------------
(* C27 *)

\* Conditions carries the attribute, written with a value (other than "")
\* that is no timestamp.
Unparseable(x, name) == BoundGiven(x, name) /\ ~IsTimestamp(BoundText(x, name))

\* C27: no record is returned for an assertion whose Conditions carries a
\* NotBefore or a NotOnOrAfter that cannot be parsed as a timestamp: the
\* call fails instead of treating the bound as absent.
C27_UnparseableBoundRejected ==
    \A r \in Calls :
        (Validated(r) /\ WellFormed(calls[r].assertionXML)) =>
            LET x == calls[r].assertionXML
            IN  (Unparseable(x, "NotBefore") \/ Unparseable(x, "NotOnOrAfter")) =>
                    calls[r].result.kind = "error"

----------------------------------------------------------------------------
(* C28 *)

NameSet(els) == {els[i].attrs.Name : i \in 1..Len(els)}
Repeated(els) ==
    \E i, j \in 1..Len(els) : i # j /\ els[i].attrs.Name = els[j].attrs.Name

\* The texts, those that are not empty, of the AttributeValue elements read.
TextsKept(el) ==
    LET NonEmpty(t) == t # <<>> IN SelectSeq(EveryValueText(el), NonEmpty)

\* C28: when located Attribute elements of an assertion share a Name, the
\* mapping has as many keys as there are distinct Names, and for every Name
\* exactly one key, holding the values of the last element with that Name
\* alone.
C28_LastOfSameNameWins ==
    \A r \in Calls :
        (Validated(r) /\ ReturnedRecord(r)) =>
            LET els == Named(Located(calls[r].assertionXML))
                attributes == calls[r].result.value.attributes
            IN  Repeated(els) =>
                    /\ Len(attributes) = Cardinality(NameSet(els))
                    /\ \A name \in NameSet(els) :
                          LET same == WithName(els, name)
                              At(i) == attributes[i].name = name
                          IN  /\ Cardinality({i \in 1..Len(attributes) : At(i)}) = 1
                              /\ \A i \in 1..Len(attributes) :
                                    At(i) => attributes[i].values = TextsKept(same[Len(same)])

====
